---- MODULE Spec2Model ----
(***************************************************************************)
(* A model of the analytics core of gradescope-rubric-analytics:           *)
(*   src/src/gradescope_analytics/metrics.py          (persistence)        *)
(*   src/src/gradescope_analytics/recommendations.py  (recommendations)    *)
(*   src/src/gradescope_analytics/concepts.py         (concept mapping)    *)
(*   src/src/gradescope_analytics/mapping.py, io.py   (normalization)      *)
(*   src/app/app.py                                   (clustering)         *)
(* Every function of the source is a pure function of its arguments, so    *)
(* each component has a specification whose Init draws the arguments from  *)
(* bounded sets and whose actions apply the function and record what it    *)
(* returned or that it raised.                                             *)
(***************************************************************************)
EXTENDS Integers, Sequences, FiniteSets, TLC

VARIABLES
    df,             \* the table handed to the analytics functions
    exam_order,     \* compute_persistence / compute_recommendations argument
    persistence,    \* what compute_persistence returned
    concept_persist,    \* what _concept_persistence returned
    allowed_concepts,   \* compute_recommendations argument
    top_n,              \* compute_recommendations argument
    include_unmapped,   \* compute_recommendations argument
    recs,               \* what compute_recommendations returned, or that it raised
    concept_file,       \* the persisted concept-mapping file (path)
    mapping,            \* the mapping argument of the last save_concept_mapping call
    save_result,        \* what the last save_concept_mapping call returned or raised
    jaccard_threshold,  \* _misconception_clusters argument, a ratio <<num, den>>
    corr_threshold,     \* _misconception_clusters argument, a ratio <<num, den>>
    min_support,        \* _misconception_clusters argument
    clusters,           \* what _misconception_clusters returned
    mapping_cfg,        \* the MappingConfig argument, or None
    infer_mapping,      \* normalize_dataframe argument
    called,             \* the normalization function that was called
    normalized,         \* what that function returned or raised
    with_concepts,      \* what apply_concept_column returned or raised
    renormalized,       \* ensure_canonical_columns applied to its own output
    invariant_results,  \* what run_invariants returned or raised
    loaded,             \* what load_concept_mapping returned or raised
    from_dict_result,   \* what MappingConfig.from_dict returned or raised
    group_col,          \* group_comparison argument
    missing_label,      \* group_comparison argument
    group_result,       \* what group_comparison returned or raised
    suggestion,         \* what suggest_mapping returned
    filename,           \* sanitize_filename / build_export_path argument
    symlink,            \* the target base_dir/<sanitized name> links to, or None
    sanitized,          \* what sanitize_filename returned or raised
    export_path,        \* what build_export_path returned or raised
    parents,            \* the union-find parent dict
    linked,             \* the pairs union was called with
    last_op,            \* the last union-find call
    session_state,      \* st.session_state, the keys main's ingestion uses
    made_under,         \* the source label under which each cached value was made
    run                 \* what the last run of main loaded, used and reached

vars == <<df, exam_order, persistence, concept_persist,
          allowed_concepts, top_n, include_unmapped, recs,
          concept_file, mapping, save_result,
          jaccard_threshold, corr_threshold, min_support, clusters,
          mapping_cfg, infer_mapping, called, normalized,
          with_concepts, renormalized, invariant_results, loaded, from_dict_result,
          group_col, missing_label, group_result, suggestion,
          filename, symlink, sanitized, export_path,
          parents, linked, last_op,
          session_state, made_under, run>>

analyticsVars == <<df, exam_order, persistence, concept_persist,
                   allowed_concepts, top_n, include_unmapped, recs>>
conceptVars == <<concept_file, mapping, save_result>>
clusterVars == <<jaccard_threshold, corr_threshold, min_support, clusters>>
normVars == <<mapping_cfg, infer_mapping, called, normalized>>
resultVars == <<with_concepts, renormalized, invariant_results, loaded, from_dict_result>>
groupVars == <<group_col, missing_label, group_result>>
suggestVars == <<suggestion>>
exportVars == <<filename, symlink, sanitized, export_path>>
unionFindVars == <<parents, linked, last_op>>
sessionVars == <<session_state, made_under, run>>
extraVars == <<groupVars, suggestVars, exportVars, unionFindVars, sessionVars>>
baseVars == <<analyticsVars, conceptVars, clusterVars, normVars, resultVars>>

persistVars == <<persistence, concept_persist>>
recVars == <<allowed_concepts, top_n, include_unmapped, recs>>

(***************************************************************************)
(* Generic helpers for Python / pandas values.                             *)
(***************************************************************************)
Range(s) == {s[i] : i \in DOMAIN s}

\* Optional[...] arguments: None, or a value.
None == [some |-> FALSE, v |-> <<>>]
Some(x) == [some |-> TRUE, v |-> x]

\* Series.unique(): the distinct values in order of first appearance.
RECURSIVE Unique(_)
Unique(s) ==
    IF s = <<>> THEN <<>>
    ELSE LET front == Unique(SubSeq(s, 1, Len(s) - 1))
             last == s[Len(s)]
         IN IF last \in Range(front) THEN front ELSE Append(front, last)

\* Column c of a table, as a sequence (a pandas Series).
Column(table, c) == [i \in DOMAIN table |-> table[i][c]]

\* A variant of SortedFrom that keeps the values in order of first appearance.
FirstSeenFrom(universe, xs) == Unique(xs)

\* sorted(xs) for strings drawn from a universe listed in lexicographic order.
SortedFrom(universe, xs) == SelectSeq(universe, LAMBDA x : x \in Range(xs))

\* A result not computed yet, a returned value, and a raised exception.
Idle == [status |-> "idle", value |-> <<>>, error |-> ""]
Returned(x) == [status |-> "returned", value |-> x, error |-> ""]
Raised(msg) == [status |-> "raised", value |-> <<>>, error |-> msg]

\* A Python float that is a ratio of two counts, kept exact: <<num, den>>.
Ratio(n, d) == <<n, d>>
Zero == <<0, 1>>

(***************************************************************************)
(* The input tables of the analytics functions: canonical tables as        *)
(* normalization returns them (identifiers are trimmed and non-blank,      *)
(* points_lost is a number >= 0), on which the leading                     *)
(* ensure_canonical_columns and _cast_numeric calls change nothing.        *)
(***************************************************************************)
MaxRows == 4
MaxOrderLen == 2

StudentIds == <<"s1", "s2">>
ExamIds == <<"E1", "E2", "E3">>
ItemIds == <<"A", "B">>

\* The concept of a rubric item in the persistence tables (one concept each).
ConceptOfItem(item) == IF item = "A" THEN "X" ELSE "Y"

PersistRows ==
    {[student_id |-> s, exam_id |-> e, rubric_item |-> i,
      concept |-> ConceptOfItem(i), points_lost |-> 1] :
        s \in Range(StudentIds), e \in Range(ExamIds), i \in Range(ItemIds)}

\* The rows of a set in a fixed order, and in the opposite order.
RECURSIVE SeqOfSet(_)
SeqOfSet(S) ==
    IF S = {} THEN <<>>
    ELSE LET x == CHOOSE y \in S : TRUE IN <<x>> \o SeqOfSet(S \ {x})

Reverse(s) == [i \in DOMAIN s |-> s[Len(s) + 1 - i]]

\* The subsets of S of at most n elements.
RECURSIVE SubsetsUpTo(_, _)
SubsetsUpTo(S, n) ==
    IF n = 0 THEN {{}}
    ELSE LET smaller == SubsetsUpTo(S, n - 1)
         IN smaller \cup {T \cup {x} : T \in smaller, x \in S}

TablesOver(rows) ==
    UNION {{SeqOfSet(S), Reverse(SeqOfSet(S))} : S \in SubsetsUpTo(rows, MaxRows)}

RECURSIVE SeqsUpTo(_, _)
SeqsUpTo(S, n) ==
    IF n = 0 THEN {<<>>}
    ELSE LET shorter == SeqsUpTo(S, n - 1)
         IN shorter \cup {Append(s, x) : s \in shorter, x \in S}

ExamOrders == {None} \cup {Some(o) : o \in SeqsUpTo(Range(ExamIds), MaxOrderLen)}

(***************************************************************************)
(* metrics.compute_persistence                                             *)
(***************************************************************************)
\* order_list: exam_order filtered to the exams seen, else the sorted exams.
OrderList(exams_seen, order) ==
    IF order.some /\ order.v # <<>>
    THEN LET kept == SelectSeq(order.v, LAMBDA e : e \in Range(exams_seen))
         IN IF kept = <<>> THEN SortedFrom(ExamIds, exams_seen) ELSE kept
    ELSE SortedFrom(ExamIds, exams_seen)

\* A variant of ExamRankGet in which an exam absent from the ordering ranks
\* after every exam of it.
ExamRankGetAbsentLast(order_list, x) ==
    IF x \in Range(order_list)
    THEN (CHOOSE i \in DOMAIN order_list :
            /\ order_list[i] = x
            /\ \A j \in DOMAIN order_list : order_list[j] = x => j <= i) - 1
    ELSE Len(order_list)

\* exam_rank.get(x, -1) for exam_rank = {exam: idx for idx, exam in
\* enumerate(order_list)}: a repeated exam keeps its last index.
ExamRankGet(order_list, x) ==
    IF x \in Range(order_list)
    THEN (CHOOSE i \in DOMAIN order_list :
            /\ order_list[i] = x
            /\ \A j \in DOMAIN order_list : order_list[j] = x => j <= i) - 1
    ELSE -1

\* later_subset of one rubric item's rows.
LaterSubset(subset, order_list) ==
    IF {order_list[i] : i \in 2..Len(order_list)} # {}
    THEN SelectSeq(subset, LAMBDA r : ExamRankGet(order_list, r.exam_id) > 0)
    ELSE <<>>

\* A variant of PersistenceRate without the guard on an empty cohort.
PersistenceRateUnguarded(repeated, cohort_size) == Ratio(repeated, cohort_size)

\* persistence_rate
PersistenceRate(repeated, cohort_size) ==
    IF cohort_size # 0 THEN Ratio(repeated, cohort_size) ELSE Zero

\* The record appended for one group (key column `key`, key value k).
PersistenceRow(data, key, k, order_list) ==
    LET subset == SelectSeq(data, LAMBDA r : r[key] = k)
        cohort_set ==
            Range(Column(SelectSeq(subset, LAMBDA r : r.exam_id = order_list[1]),
                         "student_id"))
        later_subset == LaterSubset(subset, order_list)
        repeated_students ==
            Range(Column(later_subset, "student_id")) \cap cohort_set
        cohort_size == Cardinality(cohort_set)
        repeated == Cardinality(repeated_students)
    IN [key |-> k, cohort_size |-> cohort_size, repeated |-> repeated,
        persistence_rate |-> PersistenceRate(repeated, cohort_size)]

compute_persistence(table, order) ==
    LET exams_seen == Unique(Column(table, "exam_id"))
        order_list == OrderList(exams_seen, order)
        groups == SortedFrom(ItemIds, Column(table, "rubric_item"))
    IN IF order_list = <<>>
       THEN Returned(<<>>)
       ELSE Returned([g \in DOMAIN groups |->
                        PersistenceRow(table, "rubric_item", groups[g], order_list)])

(***************************************************************************)
(* recommendations._concept_persistence                                    *)
(***************************************************************************)
ConceptIds == <<"Unmapped", "X", "Y">>

\* str.strip() on the concept and allow-list strings of the model.
Strip(s) ==
    CASE s = " " -> ""
      [] s = " X " -> "X"
      [] OTHER -> s

\* a > b for two ratios of counts.
RatioGreater(a, b) == a[1] * b[2] > b[1] * a[2]

\* DataFrame.sort_values(by=..., ascending=False) on a short frame, the sort
\* key of each row given as a ratio in keys: rows with equal keys keep their
\* order. The result is the permutation of the row indices.
RECURSIVE InsertDesc(_, _, _)
InsertDesc(sorted, i, keys) ==
    IF sorted = <<>> THEN <<i>>
    ELSE IF RatioGreater(keys[i], keys[sorted[Len(sorted)]])
         THEN Append(InsertDesc(SubSeq(sorted, 1, Len(sorted) - 1), i, keys),
                     sorted[Len(sorted)])
         ELSE Append(sorted, i)

RECURSIVE ArgSortDesc(_, _)
ArgSortDesc(n, keys) ==
    IF n = 0 THEN <<>> ELSE InsertDesc(ArgSortDesc(n - 1, keys), n, keys)

SortDesc(rows, keys) ==
    LET perm == ArgSortDesc(Len(rows), keys)
    IN [i \in DOMAIN rows |-> rows[perm[i]]]

\* The rows whose stripped concept is not blank.
ConceptScoped(table) ==
    SelectSeq([i \in DOMAIN table |-> [table[i] EXCEPT !.concept = Strip(@)]],
          LAMBDA r : r.concept # "")

\* later_subset of one concept's rows: the rank is taken in the exam_order
\* argument, not in the filtered order_list.
ConceptLaterSubset(subset, order) ==
    SelectSeq(subset, LAMBDA r : ExamRankGet(order, r.exam_id) > 0)

ConceptPersistenceRow(data, concept, order, first_exam) ==
    LET subset == SelectSeq(data, LAMBDA r : r.concept = concept)
        cohort_students ==
            Range(Column(SelectSeq(subset, LAMBDA r : r.exam_id = first_exam), "student_id"))
        later_subset == ConceptLaterSubset(subset, order)
        repeated == Range(Column(later_subset, "student_id")) \cap cohort_students
        cohort_size == Cardinality(cohort_students)
    IN [key |-> concept, cohort_size |-> cohort_size,
        repeated |-> Cardinality(repeated),
        persistence_rate |-> PersistenceRate(Cardinality(repeated), cohort_size)]

\* Whether the loop keeps a concept: `if not cohort_students: continue`.
HasCohort(row) == row.cohort_size # 0

concept_persistence(table, order) ==
    IF Len(order) < 2 THEN <<>>
    ELSE LET data == ConceptScoped(table)
             order_list ==
                 SelectSeq(order, LAMBDA e : e \in Range(Column(data, "exam_id")))
             groups == SortedFrom(ConceptIds, Column(data, "concept"))
             rows == [g \in DOMAIN groups |->
                        ConceptPersistenceRow(data, groups[g], order, order_list[1])]
         IN IF data = <<>> \/ Len(order_list) < 2 THEN <<>>
            ELSE LET kept == SelectSeq(rows, HasCohort)
                 IN SortDesc(kept, Column(kept, "persistence_rate"))

(***************************************************************************)
(* recommendations.compute_recommendations                                 *)
(***************************************************************************)
UnmappedLabel == "Unmapped"

\* data: the concept column stripped, the unmapped rows dropped unless asked.
RecData(table, include) ==
    LET stripped == [i \in DOMAIN table |-> [table[i] EXCEPT !.concept = Strip(@)]]
    IN IF include THEN stripped
       ELSE SelectSeq(stripped, LAMBDA r : r.concept # UnmappedLabel)

RECURSIVE SumSeq(_)
SumSeq(s) == IF s = <<>> THEN 0 ELSE s[Len(s)] + SumSeq(SubSeq(s, 1, Len(s) - 1))

ConceptStatsRow(scoped, concept) ==
    LET subset == SelectSeq(scoped, LAMBDA r : r.concept = concept)
    IN [concept |-> concept,
        rows |-> Len(subset),
        students_affected |-> Cardinality(Range(Column(subset, "student_id"))),
        points_lost_total |-> SumSeq(Column(subset, "points_lost")),
        points_lost_mean |-> Ratio(SumSeq(Column(subset, "points_lost")), Len(subset))]

\* _concept_stats: one row per non-blank concept, by points_lost_total descending.
concept_stats(data) ==
    LET scoped == ConceptScoped(data)
        groups == SortedFrom(ConceptIds, Column(scoped, "concept"))
        rows == [g \in DOMAIN groups |-> ConceptStatsRow(scoped, groups[g])]
    IN SortDesc(rows, [i \in DOMAIN rows |-> Ratio(rows[i].points_lost_total, 1)])

\* A variant of _filter_allowed_concepts that reads an allow-list without
\* entries as no restriction.
FilterAllowedEmptyAsNone(stats, allowed) ==
    IF ~allowed.some THEN stats
    ELSE LET allowed_set == {Strip(c) : c \in {x \in Range(allowed.v) : Strip(x) # ""}}
         IN IF allowed_set = {} THEN stats
            ELSE SelectSeq(stats, LAMBDA r : r.concept \in allowed_set)


\* _filter_allowed_concepts
filter_allowed_concepts(stats, allowed) ==
    IF ~allowed.some THEN stats
    ELSE LET allowed_set == {Strip(c) : c \in {x \in Range(allowed.v) : Strip(x) # ""}}
         IN IF allowed_set = {} THEN <<>>
            ELSE SelectSeq(stats, LAMBDA r : r.concept \in allowed_set)

\* students_affected.clip(lower=1)
ClipLower1(n) == IF n < 1 THEN 1 ELSE n

\* A variant of ImpactScore that leaves out the number of students.
ImpactScoreTotalOnly(row) == row.points_lost_total

\* impact_score of one row of concept_stats.
ImpactScore(row) == row.points_lost_total * ClipLower1(row.students_affected)

\* concept_stats with its impact_score column, by impact_score descending.
RankedStats(stats) ==
    LET scored == [i \in DOMAIN stats |->
                     [concept |-> stats[i].concept,
                      students_affected |-> stats[i].students_affected,
                      points_lost_total |-> stats[i].points_lost_total,
                      impact_score |-> ImpactScore(stats[i])]]
    IN SortDesc(scored, [i \in DOMAIN scored |-> Ratio(scored[i].impact_score, 1)])

\* DataFrame.head(n) for n >= 0.
HeadRows(rows, n) == SubSeq(rows, 1, IF n < Len(rows) THEN n ELSE Len(rows))

\* The rows of concept_persist for one concept.
PersistMatches(cp, concept) == SelectSeq(cp, LAMBDA r : r.key = concept)

\* Whether `....values[0]` finds a value: concept_persist is empty (the rate
\* defaults to 0.0) or holds a row for the concept.
RateFound(cp, concept) == cp = <<>> \/ PersistMatches(cp, concept) # <<>>

RateOf(cp, concept) ==
    IF cp = <<>> THEN Zero ELSE PersistMatches(cp, concept)[1].persistence_rate

\* A variant of the threshold test: rate > 0.2.
ReteachThresholdStrict(rate) == 5 * rate[1] > rate[2]

\* rate >= 0.2
ReteachThreshold(rate) == 5 * rate[1] >= rate[2]

ActionOf(rate) == IF ReteachThreshold(rate) THEN "Re-teach" ELSE "Add practice for"

RecRecord(row, cp) ==
    LET rate == RateOf(cp, row.concept)
    IN [concept |-> row.concept,
        action |-> ActionOf(rate),
        impact_score |-> row.impact_score,
        students |-> row.students_affected,
        points_lost_total |-> row.points_lost_total,
        persistence_rate |-> rate]

compute_recommendations(table, order, allowed, n, include) ==
    LET data == RecData(table, include)
        stats == filter_allowed_concepts(concept_stats(data), allowed)
        ranked == RankedStats(stats)
        exams == Unique(Column(data, "exam_id"))
        order_list == OrderList(exams, order)
        cp == IF order_list # <<>> THEN concept_persistence(data, order_list) ELSE <<>>
        top == HeadRows(ranked, n)
    IN IF stats = <<>> THEN Returned(<<>>)
       ELSE IF \E i \in DOMAIN top : ~RateFound(cp, top[i].concept)
            THEN Raised("IndexError")
            ELSE Returned([i \in DOMAIN top |-> RecRecord(top[i], cp)])

\* The variables of a component that a specification does not exercise.
ResultsIdle ==
    /\ with_concepts = Idle
    /\ renormalized = Idle
    /\ invariant_results = Idle
    /\ loaded = Idle
    /\ from_dict_result = Idle

GroupIdle ==
    /\ group_col = <<>>
    /\ missing_label = <<>>
    /\ group_result = Idle

SuggestIdle == suggestion = Idle

ExportIdle ==
    /\ filename = <<>>
    /\ symlink = None
    /\ sanitized = Idle
    /\ export_path = Idle

NoOp == [op |-> "none", x |-> "", root |-> "", compressed |-> FALSE]

UnionFindIdle ==
    /\ parents = <<>>
    /\ linked = {}
    /\ last_op = NoOp

SessionIdle ==
    /\ session_state = <<>>
    /\ made_under = <<>>
    /\ run = <<>>

ExtraIdle == GroupIdle /\ SuggestIdle /\ ExportIdle /\ UnionFindIdle /\ SessionIdle

NormIdle ==
    /\ mapping_cfg = None
    /\ infer_mapping = TRUE
    /\ called = ""
    /\ normalized = Idle

ClusterIdle ==
    /\ jaccard_threshold = Zero
    /\ corr_threshold = Zero
    /\ min_support = 0
    /\ clusters = Idle

PersistIdle ==
    /\ persistence = Idle
    /\ concept_persist = Idle

RecIdle ==
    /\ allowed_concepts = None
    /\ top_n = 0
    /\ include_unmapped = FALSE
    /\ recs = Idle

(***************************************************************************)
(* Strings whose characters matter are sequences of one-character strings. *)
(***************************************************************************)
Uppers == <<"A", "B", "C", "D", "E", "F", "G", "H", "I", "J", "K", "L", "M",
            "N", "O", "P", "Q", "R", "S", "T", "U", "V", "W", "X", "Y", "Z">>
Lowers == <<"a", "b", "c", "d", "e", "f", "g", "h", "i", "j", "k", "l", "m",
            "n", "o", "p", "q", "r", "s", "t", "u", "v", "w", "x", "y", "z">>

Whitespace == {" ", "\t"}

LowerChar(c) ==
    IF \E i \in DOMAIN Uppers : Uppers[i] = c
    THEN Lowers[CHOOSE i \in DOMAIN Uppers : Uppers[i] = c]
    ELSE c

\* str.lower()
StrLower(s) == [i \in DOMAIN s |-> LowerChar(s[i])]

RECURSIVE LStrip(_)
LStrip(s) ==
    IF s # <<>> /\ s[1] \in Whitespace THEN LStrip(Tail(s)) ELSE s

RECURSIVE RStrip(_)
RStrip(s) ==
    IF s # <<>> /\ s[Len(s)] \in Whitespace
    THEN RStrip(SubSeq(s, 1, Len(s) - 1)) ELSE s

\* str.strip()
StrStrip(s) == RStrip(LStrip(s))

(***************************************************************************)
(* concepts.py: the persisted concept mapping.                             *)
(* A Python dict is a sequence of <<key, value>> pairs with distinct keys, *)
(* in insertion order.                                                     *)
(***************************************************************************)
PLACEHOLDER_VALUES ==
    {<<>>, <<"n", "o", "n", "e">>, <<"n", "u", "l", "l">>, <<"n", "i", "l">>,
     <<"n", "/", "a">>, <<"n", "a">>, <<"y", "e", "s">>, <<"t", "r", "u", "e">>,
     <<"f", "a", "l", "s", "e">>}

clean_str(value) == StrStrip(value)

\* A variant of is_valid_concept that compares the value as it is cased.
IsValidConceptCaseSensitive(value) == value \notin PLACEHOLDER_VALUES /\ value # <<>>

is_valid_concept(value) == StrLower(value) \notin PLACEHOLDER_VALUES /\ value # <<>>

DictKeys(d) == {d[i][1] : i \in DOMAIN d}

\* d[key] = val
DictSet(d, key, val) ==
    IF key \in DictKeys(d)
    THEN [i \in DOMAIN d |-> IF d[i][1] = key THEN <<key, val>> ELSE d[i]]
    ELSE Append(d, <<key, val>>)

\* normalize_mapping: the (cleaned, invalid) dicts after the first n entries.
RECURSIVE NormalizeUpTo(_, _)
NormalizeUpTo(m, n) ==
    IF n = 0 THEN [cleaned |-> <<>>, invalid |-> <<>>]
    ELSE LET before == NormalizeUpTo(m, n - 1)
             raw_key == m[n][1]
             raw_val == m[n][2]
             key == clean_str(raw_key)
             val == clean_str(raw_val)
         IN IF key = <<>>
            THEN [before EXCEPT !.invalid = DictSet(@, raw_key, raw_val)]
            ELSE IF is_valid_concept(val)
                 THEN [before EXCEPT !.cleaned = DictSet(@, key, val)]
                 ELSE [before EXCEPT !.invalid = DictSet(@, key, val)]

normalize_mapping(m) == NormalizeUpTo(m, Len(m))

\* json.dumps of a flat dict of strings: its members in order, each a key
\* followed by its value.
RECURSIVE JsonDumps(_)
JsonDumps(d) ==
    IF d = <<>> THEN <<>>
    ELSE <<d[1][1], d[1][2]>> \o JsonDumps(Tail(d))

\* json.loads of such a text: a repeated key keeps its last value.
RECURSIVE JsonLoads(_)
JsonLoads(text) ==
    IF text = <<>> THEN <<>>
    ELSE LET n == Len(text)
         IN DictSet(JsonLoads(SubSeq(text, 1, n - 2)), text[n - 1], text[n])

NoFile == [exists |-> FALSE, text |-> <<>>]
FileWith(text) == [exists |-> TRUE, text |-> text]

\* The file after a successful save: path.write_text(json.dumps(cleaned)).
WriteCleaned(cleaned) == FileWith(JsonDumps(cleaned))

\* A variant of save_concept_mapping's write that happens before validation:
\* the valid entries are written even when the call goes on to raise.
FileAfterSaveEager(file, m) == WriteCleaned(normalize_mapping(m).cleaned)

\* The file after save_concept_mapping(m, path).
FileAfterSave(file, m) ==
    IF normalize_mapping(m).invalid # <<>> THEN file
    ELSE WriteCleaned(normalize_mapping(m).cleaned)

\* What save_concept_mapping(m, path) returns or raises.
save_concept_mapping(m) ==
    LET n == normalize_mapping(m)
    IN IF n.invalid # <<>>
       THEN Raised("Invalid concept values for")
       ELSE Returned(n.cleaned)

(***************************************************************************)
(* Specification of the concept-mapping file: any sequence of saves.       *)
(***************************************************************************)
MaxEntries == 2

MappingKeys == {<<"a">>, <<" ", "a">>, <<" ">>}

MappingValues == {<<"n", "a", "p">>, <<"W", " ">>, <<" ", "Y", "e", "s">>, <<" ">>}

RECURSIVE DictsUpTo(_)
DictsUpTo(n) ==
    IF n = 0 THEN {<<>>}
    ELSE LET shorter == DictsUpTo(n - 1)
         IN shorter \cup
            {Append(d, <<k, v>>) :
               d \in shorter, k \in MappingKeys, v \in MappingValues}

Mappings == {d \in DictsUpTo(MaxEntries) : Cardinality(DictKeys(d)) = Len(d)}

ConceptIdle ==
    /\ concept_file = NoFile
    /\ mapping = <<>>
    /\ save_result = Idle

AnalyticsIdle ==
    /\ df = <<>>
    /\ exam_order = None
    /\ PersistIdle
    /\ RecIdle

InitConcept ==
    /\ ExtraIdle
    /\ ConceptIdle
    /\ AnalyticsIdle
    /\ ClusterIdle
    /\ NormIdle
    /\ ResultsIdle

SaveConceptMapping ==
    \E m \in Mappings :
        /\ mapping' = m
        /\ save_result' = save_concept_mapping(m)
        /\ concept_file' = FileAfterSave(concept_file, m)
        /\ UNCHANGED <<extraVars, analyticsVars, clusterVars, normVars, resultVars>>

NextConcept == SaveConceptMapping

SpecConcept == InitConcept /\ [][NextConcept]_vars

(***************************************************************************)
(* Loading the concept-mapping file.                                       *)
(***************************************************************************)
\* isinstance(raw, dict): the text of an object is a run of members, a key
\* and a value each; a text of odd length stands for JSON that is no object.
IsJsonObject(text) == Len(text) % 2 = 0

\* load_concept_mapping(path)
load_concept_mapping(file) ==
    IF ~file.exists THEN Returned(<<>>)
    ELSE IF ~IsJsonObject(file.text)
    THEN Raised("Concept mapping JSON must be an object of rubric_item -> concept")
    ELSE Returned(normalize_mapping(JsonLoads(file.text)).cleaned)

\* The files a load meets: none, an object written by hand with any entries
\* (a key may repeat in the text), and JSON that is a string.
PersistedFiles ==
    {NoFile, FileWith(<<<<"a">>>>)}
        \cup {FileWith(JsonDumps(d)) : d \in DictsUpTo(MaxEntries)}

InitLoad ==
    /\ ExtraIdle
    /\ concept_file \in PersistedFiles
    /\ mapping = <<>>
    /\ save_result = Idle
    /\ AnalyticsIdle
    /\ ClusterIdle
    /\ NormIdle
    /\ ResultsIdle

LoadConceptMapping ==
    /\ loaded.status = "idle"
    /\ loaded' = load_concept_mapping(concept_file)
    /\ UNCHANGED <<extraVars, analyticsVars, conceptVars, clusterVars, normVars, with_concepts,
                   renormalized, invariant_results, from_dict_result>>

\* save_concept_mapping of what was loaded, onto the same path.
SaveLoaded ==
    /\ loaded.status = "returned"
    /\ save_result.status = "idle"
    /\ mapping' = loaded.value
    /\ save_result' = save_concept_mapping(loaded.value)
    /\ concept_file' = FileAfterSave(concept_file, loaded.value)
    /\ UNCHANGED <<extraVars, analyticsVars, clusterVars, normVars, resultVars>>

NextLoad == LoadConceptMapping \/ SaveLoaded

SpecLoad == InitLoad /\ [][NextLoad]_vars


(***************************************************************************)
(* Specification of the persistence engine.                                *)
(***************************************************************************)
InitPersist ==
    /\ ExtraIdle
    /\ df \in TablesOver(PersistRows)
    /\ exam_order \in ExamOrders
    /\ persistence = Idle
    /\ concept_persist = Idle
    /\ RecIdle
    /\ ConceptIdle
    /\ ClusterIdle
    /\ NormIdle
    /\ ResultsIdle

ComputePersistence ==
    /\ persistence = Idle
    /\ persistence' = compute_persistence(df, exam_order)
    /\ UNCHANGED <<extraVars, df, exam_order, concept_persist, recVars, conceptVars,
                   clusterVars, normVars, resultVars>>

\* A direct call with the list the caller chose: the given exam_order, or the
\* lexicographic one when none was given.
CallerOrder ==
    IF exam_order.some THEN exam_order.v
    ELSE SortedFrom(ExamIds, Column(df, "exam_id"))

ConceptPersistence ==
    /\ concept_persist = Idle
    /\ concept_persist' = Returned(concept_persistence(df, CallerOrder))
    /\ UNCHANGED <<extraVars, df, exam_order, persistence, recVars, conceptVars,
                   clusterVars, normVars, resultVars>>

NextPersist == ComputePersistence \/ ConceptPersistence

SpecPersist == InitPersist /\ [][NextPersist]_vars

(***************************************************************************)
(* Specification of the recommendation engine: tables with a concept       *)
(* column, as apply_concept_column returns them.                           *)
(***************************************************************************)
RecMaxRows == 3

RecRows ==
    {r \in [student_id : {"s1", "s2"}, exam_id : {"E1", "E2"}, rubric_item : {"A"},
            concept : {"X", "Y", "Unmapped"}, points_lost : {1, 2}] :
        r.points_lost = 2 => r.concept = "X"}
    \cup {[student_id |-> "s1", exam_id |-> "E1", rubric_item |-> "A",
           concept |-> " ", points_lost |-> 2]}

\* A cohort of n students with concept X on E1, the first k of them again on E2.
CohortStudents == <<"s1", "s2", "s3", "s4", "s5", "s6">>

CohortTable(n, k) ==
    [i \in 1..(n + k) |->
        [student_id |-> CohortStudents[IF i <= n THEN i ELSE i - n],
         exam_id |-> IF i <= n THEN "E1" ELSE "E2",
         rubric_item |-> "A", concept |-> "X", points_lost |-> 1]]

RecTables(max_rows) ==
    {SeqOfSet(S) : S \in SubsetsUpTo(RecRows, max_rows)}
    \cup {CohortTable(n, k) : n \in {5, 6}, k \in {0, 1, 2}}

RecExamOrders == {None, Some(<<"E1", "E2">>), Some(<<"E2", "E1">>)}

AllowLists == {None, Some(<<" ">>), Some(<<" X ", "Unmapped">>), Some(<<"Y", "X">>)}

TopNs == {1, 2}

InitRec ==
    /\ ExtraIdle
    /\ df \in RecTables(RecMaxRows)
    /\ exam_order \in RecExamOrders
    /\ allowed_concepts \in AllowLists
    /\ top_n \in TopNs
    /\ include_unmapped \in BOOLEAN
    /\ recs = Idle
    /\ PersistIdle
    /\ ConceptIdle
    /\ ClusterIdle
    /\ NormIdle
    /\ ResultsIdle

ComputeRecommendations ==
    /\ recs = Idle
    /\ recs' = compute_recommendations(df, exam_order, allowed_concepts, top_n,
                                       include_unmapped)
    /\ UNCHANGED <<extraVars, df, exam_order, allowed_concepts, top_n, include_unmapped,
                   persistVars, conceptVars, clusterVars, normVars, resultVars>>

NextRec == ComputeRecommendations

SpecRec == InitRec /\ [][NextRec]_vars

(***************************************************************************)
(* Specification of the recommendations over row orders: one call on a     *)
(* table that holds a set of rows in any order.                            *)
(***************************************************************************)
OrderMaxRows == 3

OrderRows ==
    {r \in [student_id : {"s1", "s2"}, exam_id : {"E1", "E2"}, rubric_item : {"A"},
            concept : {"X", "Y"}, points_lost : {1, 2}] :
        r.points_lost = 2 => (r.concept = "X" /\ r.student_id = "s1")}

\* The tables of distinct rows, in every order.
OrderedTables(max_rows) ==
    {t \in SeqsUpTo(OrderRows, max_rows) : Cardinality(Range(t)) = Len(t)}

InitRecOrder ==
    /\ ExtraIdle
    /\ df \in OrderedTables(OrderMaxRows)
    /\ exam_order \in RecExamOrders
    /\ allowed_concepts \in {None, Some(<<"Y", "X">>)}
    /\ top_n \in TopNs
    /\ include_unmapped = FALSE
    /\ recs = Idle
    /\ PersistIdle
    /\ ConceptIdle
    /\ ClusterIdle
    /\ NormIdle
    /\ ResultsIdle

SpecRecOrder == InitRecOrder /\ [][NextRec]_vars

(***************************************************************************)
(* app._misconception_clusters                                             *)
(***************************************************************************)
ClusterStudentIds == <<"s1", "s2", "s3", "s4">>
ClusterItemIds == <<"A", "B", "C">>

\* scoped: rubric_item stripped, the rows with a blank rubric_item dropped.
ClusterScoped(table) ==
    SelectSeq([i \in DOMAIN table |-> [table[i] EXCEPT !.rubric_item = Strip(@)]],
              LAMBDA r : r.rubric_item # "")

RECURSIVE Concat(_)
Concat(ss) == IF ss = <<>> THEN <<>> ELSE ss[1] \o Concat(Tail(ss))

\* The keys of the incidence dict in insertion order: students in sorted
\* order (groupby), each student's items in order of first appearance.
IncidenceKeys(scoped) ==
    LET students == SortedFrom(ClusterStudentIds, Column(scoped, "student_id"))
        itemsOf(st) ==
            Unique(Column(SelectSeq(scoped, LAMBDA r : r.student_id = st),
                          "rubric_item"))
    IN Unique(Concat([k \in DOMAIN students |-> itemsOf(students[k])]))

\* incidence[item]
Incidence(scoped, item) ==
    {scoped[i].student_id : i \in {j \in DOMAIN scoped : scoped[j].rubric_item = item}}

\* A variant of SupportedItems without the support filter.
SupportedItemsAll(scoped, support) == IncidenceKeys(scoped)


\* items: the keys with at least min_support students.
SupportedItems(scoped, support) ==
    SelectSeq(IncidenceKeys(scoped),
              LAMBDA item : Cardinality(Incidence(scoped, item)) >= support)

\* itertools.combinations(items, 2), as index pairs in its order.
RECURSIVE PairsFrom(_, _, _)
PairsFrom(i, j, n) ==
    IF i >= n THEN <<>>
    ELSE IF j > n THEN PairsFrom(i + 1, i + 2, n)
         ELSE <<<<i, j>>>> \o PairsFrom(i, j + 1, n)

Combinations2(items) ==
    LET idx == PairsFrom(1, 2, Len(items))
    IN [k \in DOMAIN idx |-> <<items[idx[k][1]], items[idx[k][2]]>>]

\* a >= b for ratios of non-negative numbers with positive denominators.
RatioGeq(a, b) == a[1] * b[2] >= b[1] * a[2]

\* The similarity row of a pair; corr is kept as its square, inter^2 / (|sa| |sb|).
SimilarityRow(scoped, a, b) ==
    LET sa == Incidence(scoped, a)
        sb == Incidence(scoped, b)
        inter == Cardinality(sa \cap sb)
    IN [rubric_item_a |-> a, rubric_item_b |-> b,
        jaccard |-> Ratio(inter, Cardinality(sa \cup sb)),
        corr_sq |-> IF sa # {} /\ sb # {}
                    THEN Ratio(inter * inter, Cardinality(sa) * Cardinality(sb))
                    ELSE Zero,
        cooccurrence |-> inter]

\* jaccard >= jaccard_threshold or corr >= corr_threshold
IsEdge(row, jt, ct) ==
    \/ RatioGeq(row.jaccard, jt)
    \/ RatioGeq(row.corr_sq, <<ct[1] * ct[1], ct[2] * ct[2]>>)

\* find(x): the root, and parent after the path halving.
RECURSIVE Find(_, _)
Find(parent, x) ==
    IF parent[x] = x THEN [parent |-> parent, root |-> x]
    ELSE LET halved == [parent EXCEPT ![x] = parent[parent[x]]]
         IN Find(halved, halved[x])

\* A variant of union that links the items themselves instead of their roots.
UnionNoFind(parent, x, y) ==
    IF x # y THEN [parent EXCEPT ![y] = x] ELSE parent

\* A variant of union that re-parents y itself instead of its root.
UnionAttachItem(parent, x, y) ==
    LET fx == Find(parent, x)
        fy == Find(fx.parent, y)
    IN IF fx.root # fy.root THEN [fy.parent EXCEPT ![y] = fx.root]
       ELSE fy.parent


\* union(x, y): parent afterwards.
Union(parent, x, y) ==
    LET fx == Find(parent, x)
        fy == Find(fx.parent, y)
    IN IF fx.root # fy.root THEN [fy.parent EXCEPT ![fy.root] = fx.root]
       ELSE fy.parent

\* for a, b in edges: union(a, b)
RECURSIVE UnionAll(_, _)
UnionAll(parent, edges) ==
    IF edges = <<>> THEN parent
    ELSE UnionAll(Union(parent, edges[1][1], edges[1][2]), Tail(edges))

\* for item in items: clusters[find(item)].append(item) -- the clusters dict
\* as a sequence of <<root, members>> in insertion order.
RECURSIVE GroupByRoot(_, _, _)
GroupByRoot(parent, items, acc) ==
    IF items = <<>> THEN acc
    ELSE LET f == Find(parent, items[1])
             at == {k \in DOMAIN acc : acc[k][1] = f.root}
             next == IF at = {} THEN Append(acc, <<f.root, <<items[1]>>>>)
                     ELSE [k \in DOMAIN acc |->
                             IF k \in at THEN <<acc[k][1], Append(acc[k][2], items[1])>>
                             ELSE acc[k]]
         IN GroupByRoot(f.parent, Tail(items), next)

ClusterRecord(scoped, idx, members) ==
    [label |-> <<"Misconception", idx>>,
     members |-> SortedFrom(ClusterItemIds, members),
     size |-> Len(members),
     support_students |->
        Cardinality(UNION {Incidence(scoped, members[k]) : k \in DOMAIN members})]

NoClusters == [cluster_list |-> <<>>, sim_df |-> <<>>]

misconception_clusters(table, jt, ct, support) ==
    LET scoped == ClusterScoped(table)
        items == SupportedItems(scoped, support)
        pairs == Combinations2(items)
        similarities ==
            [k \in DOMAIN pairs |-> SimilarityRow(scoped, pairs[k][1], pairs[k][2])]
        edgeRows == SelectSeq(similarities, LAMBDA row : IsEdge(row, jt, ct))
        edges == [k \in DOMAIN edgeRows |->
                    <<edgeRows[k].rubric_item_a, edgeRows[k].rubric_item_b>>]
        parent == UnionAll([item \in Range(items) |-> item], edges)
        grouped == GroupByRoot(parent, items, <<>>)
    IN IF scoped = <<>> \/ Len(items) < 2 THEN NoClusters
       ELSE [cluster_list |->
                [k \in DOMAIN grouped |-> ClusterRecord(scoped, k, grouped[k][2])],
             sim_df |-> SortDesc(similarities, Column(similarities, "jaccard"))]

(***************************************************************************)
(* Specification of the misconception clustering.                          *)
(***************************************************************************)
ClusterMaxRows == 6

ClusterRows ==
    {[student_id |-> st, exam_id |-> "E1", rubric_item |-> it, concept |-> "",
      points_lost |-> 1] :
        st \in Range(ClusterStudentIds), it \in Range(ClusterItemIds)}
    \cup {[student_id |-> "s1", exam_id |-> "E1", rubric_item |-> " ",
           concept |-> "", points_lost |-> 1]}

ClusterTables(max_rows) ==
    UNION {{SeqOfSet(S), Reverse(SeqOfSet(S))} :
             S \in SubsetsUpTo(ClusterRows, max_rows)}

JaccardThresholds == {<<1, 5>>, <<1, 2>>}
CorrThresholds == {<<3, 10>>, <<1, 1>>}
MinSupports == {1, 2}

InitCluster ==
    /\ ExtraIdle
    /\ df \in ClusterTables(ClusterMaxRows)
    /\ jaccard_threshold \in JaccardThresholds
    /\ corr_threshold \in CorrThresholds
    /\ min_support \in MinSupports
    /\ clusters = Idle
    /\ exam_order = None
    /\ PersistIdle
    /\ RecIdle
    /\ ConceptIdle
    /\ NormIdle
    /\ ResultsIdle

MisconceptionClusters ==
    /\ clusters = Idle
    /\ clusters' = Returned(misconception_clusters(df, jaccard_threshold,
                                                   corr_threshold, min_support))
    /\ UNCHANGED <<extraVars, analyticsVars, conceptVars, normVars, resultVars,
                   jaccard_threshold, corr_threshold, min_support>>

NextCluster == MisconceptionClusters

SpecCluster == InitCluster /\ [][NextCluster]_vars

(***************************************************************************)
(* mapping.py and io.py: normalization of a raw table.                     *)
(* Column headers and cell text are sequences of one-character strings.    *)
(* A table is [columns, rows]: the headers in order, and each row a        *)
(* function from header to cell.                                           *)
(***************************************************************************)
STUDENT_ID == <<"s", "t", "u", "d", "e", "n", "t", "_", "i", "d">>
EXAM_ID == <<"e", "x", "a", "m", "_", "i", "d">>
QUESTION_ID == <<"q", "u", "e", "s", "t", "i", "o", "n", "_", "i", "d">>
RUBRIC_ITEM == <<"r", "u", "b", "r", "i", "c", "_", "i", "t", "e", "m">>
POINTS_LOST == <<"p", "o", "i", "n", "t", "s", "_", "l", "o", "s", "t">>
TOPIC == <<"t", "o", "p", "i", "c">>
SECTION_ID == <<"s", "e", "c", "t", "i", "o", "n", "_", "i", "d">>
TA_ID == <<"t", "a", "_", "i", "d">>

CANONICAL_COLUMNS ==
    <<STUDENT_ID, EXAM_ID, QUESTION_ID, RUBRIC_ITEM, POINTS_LOST, TOPIC,
      SECTION_ID, TA_ID>>

REQUIRED_CANONICAL ==
    <<STUDENT_ID, EXAM_ID, QUESTION_ID, RUBRIC_ITEM, POINTS_LOST>>

\* A cell: text, a missing value (NaN) or a number.
Str(s) == [kind |-> "str", s |-> s, n |-> 0]
NaN == [kind |-> "nan", s |-> <<>>, n |-> 0]
Num(n) == [kind |-> "num", s |-> <<>>, n |-> n]

Digits == <<"0", "1", "2", "3", "4", "5", "6", "7", "8", "9">>

RECURSIVE NatToStr(_)
NatToStr(n) ==
    IF n < 10 THEN <<Digits[n + 1]>>
    ELSE NatToStr(n \div 10) \o <<Digits[(n % 10) + 1]>>

\* A variant of AsTypeStr that renders text as repr() does, in quotes.
AsTypeStrRepr(cell) ==
    CASE cell.kind = "str" -> <<"'">> \o cell.s \o <<"'">>
      [] cell.kind = "nan" -> <<"n", "a", "n">>
      [] cell.kind = "num" -> <<"0">>

\* astype(str) of one value: str() of text is the text, of NaN "nan", of an
\* integer its decimal digits.
AsTypeStr(cell) ==
    CASE cell.kind = "str" -> cell.s
      [] cell.kind = "nan" -> <<"n", "a", "n">>
      [] cell.kind = "num" ->
            IF cell.n < 0 THEN <<"-">> \o NatToStr(-cell.n) ELSE NatToStr(cell.n)

\* A variant of StrCell that leaves the whitespace in place.
StrCellNoStrip(cell) == Str(AsTypeStr(cell))

\* .astype(str).str.strip() of one value
StrCell(cell) == Str(StrStrip(AsTypeStr(cell)))

\* .fillna("") of one value
FillNa(cell) == IF cell.kind = "nan" THEN Str(<<>>) ELSE cell

\* .str.replace(r"\s+", " ", regex=True): every run of whitespace becomes
\* one space.
RECURSIVE CollapseWhitespace(_)
CollapseWhitespace(s) ==
    IF s = <<>> THEN <<>>
    ELSE IF s[1] \in Whitespace
         THEN <<" ">> \o CollapseWhitespace(LStrip(s))
         ELSE <<s[1]>> \o CollapseWhitespace(Tail(s))

IsDigits(s) ==
    /\ s # <<>>
    /\ \A i \in DOMAIN s : \E d \in DOMAIN Digits : Digits[d] = s[i]

RECURSIVE DigitsValue(_)
DigitsValue(s) ==
    IF s = <<>> THEN 0
    ELSE 10 * DigitsValue(SubSeq(s, 1, Len(s) - 1))
         + (CHOOSE d \in DOMAIN Digits : Digits[d] = s[Len(s)]) - 1

\* A variant of ToNumeric that reads text that is no number as 0.
ToNumericLenient(cell) ==
    CASE cell.kind = "num" -> cell
      [] cell.kind = "nan" -> NaN
      [] cell.kind = "str" ->
            IF IsDigits(cell.s) THEN Num(DigitsValue(cell.s))
            ELSE IF cell.s # <<>> /\ cell.s[1] = "-" /\ IsDigits(Tail(cell.s))
                 THEN Num(-DigitsValue(Tail(cell.s)))
                 ELSE Num(0)

\* pd.to_numeric(..., errors="coerce") of one value: a number stays, text of
\* an optionally signed run of digits is parsed, anything else becomes NaN.
ToNumeric(cell) ==
    CASE cell.kind = "num" -> cell
      [] cell.kind = "nan" -> NaN
      [] cell.kind = "str" ->
            IF IsDigits(cell.s) THEN Num(DigitsValue(cell.s))
            ELSE IF cell.s # <<>> /\ cell.s[1] = "-" /\ IsDigits(Tail(cell.s))
                 THEN Num(-DigitsValue(Tail(cell.s)))
                 ELSE NaN

\* col in df.columns
HasColumn(table, col) == \E i \in DOMAIN table.columns : table.columns[i] = col

\* An error message: the text of the f-string and the values formatted into it.
Message(text, args) == [text |-> text, args |-> args]

\* keyword in header
Contains(header, keyword) ==
    \E i \in 0..(Len(header) - Len(keyword)) :
        SubSeq(header, i + 1, i + Len(keyword)) = keyword

\* The keyword lists of suggest_mapping, per canonical field.
Keywords(field) ==
    CASE field = STUDENT_ID ->
            <<<<"s", "t", "u", "d", "e", "n", "t", " ", "i", "d">>,
              <<"i", "d">>,
              <<"s", "i", "d">>,
              <<"u", "i", "d">>>>
      [] field = EXAM_ID ->
            <<<<"e", "x", "a", "m">>,
              <<"a", "s", "s", "e", "s", "s", "m", "e", "n", "t">>,
              <<"a", "s", "s", "i", "g", "n", "m", "e", "n", "t">>,
              <<"t", "e", "s", "t">>>>
      [] field = QUESTION_ID ->
            <<<<"q", "u", "e", "s", "t", "i", "o", "n">>,
              <<"i", "t", "e", "m">>,
              <<"q">>,
              <<"p", "r", "o", "b", "l", "e", "m">>>>
      [] field = RUBRIC_ITEM ->
            <<<<"r", "u", "b", "r", "i", "c">>,
              <<"c", "r", "i", "t", "e", "r", "i", "o", "n">>,
              <<"p", "r", "o", "m", "p", "t">>,
              <<"i", "s", "s", "u", "e">>,
              <<"d", "e", "d", "u", "c", "t", "i", "o", "n">>>>
      [] field = POINTS_LOST ->
            <<<<"p", "o", "i", "n", "t", "s", "_", "l", "o", "s", "t">>,
              <<"p", "o", "i", "n", "t", "s", " ", "l", "o", "s", "t">>,
              <<"d", "e", "d", "u", "c", "t", "i", "o", "n">>,
              <<"p", "e", "n", "a", "l", "t", "y">>,
              <<"l", "o", "s", "s">>,
              <<"p", "o", "i", "n", "t", "s">>>>
      [] field = TOPIC ->
            <<<<"t", "o", "p", "i", "c">>,
              <<"t", "a", "g">>,
              <<"c", "a", "t", "e", "g", "o", "r", "y">>>>
      [] field = SECTION_ID ->
            <<<<"s", "e", "c", "t", "i", "o", "n">>,
              <<"d", "i", "s", "c", "u", "s", "s", "i", "o", "n">>,
              <<"l", "e", "c", "t", "u", "r", "e">>>>
      [] field = TA_ID ->
            <<<<"t", "a">>,
              <<"g", "r", "a", "d", "e", "r">>,
              <<"a", "s", "s", "i", "s", "t", "a", "n", "t">>,
              <<"g", "s", "i">>>>

\* A variant of find_column that tries the keywords in order and returns the
\* first column matching the first keyword that matches any.
FindColumnByKeywordPriority(table, keywords) ==
    LET hitsOf(k) ==
            SelectSeq(table.columns, LAMBDA col : Contains(StrLower(col), keywords[k]))
        found == {k \in DOMAIN keywords : hitsOf(k) # <<>>}
    IN IF found = {} THEN None
       ELSE Some(hitsOf(CHOOSE k \in found : \A l \in found : k <= l)[1])

\* find_column(keywords): the first column whose lower-cased header contains
\* one of the keywords, or None.
find_column(table, keywords) ==
    LET matches(col) ==
            \E k \in DOMAIN keywords : Contains(StrLower(col), keywords[k])
        hits == SelectSeq(table.columns, matches)
    IN IF hits = <<>> THEN None ELSE Some(hits[1])

\* suggest_mapping(df): a dict from canonical field to a header or None.
suggest_mapping(table) ==
    [field \in Range(CANONICAL_COLUMNS) |-> find_column(table, Keywords(field))]

\* mapping.get(key): None when the key is absent.
DictGet(d, key) == IF key \in DOMAIN d THEN d[key] ELSE None

\* not value: None or the empty string.
Falsy(opt) == ~opt.some \/ opt.v = <<>>

\* MappingConfig.from_dict(mapping)
from_dict(d) ==
    LET missing == SelectSeq(REQUIRED_CANONICAL, LAMBDA key : Falsy(DictGet(d, key)))
    IN IF missing # <<>>
       THEN Raised(Message("Missing required mapping for '{key}'", <<missing[1]>>))
       ELSE Returned([field \in Range(CANONICAL_COLUMNS) |-> DictGet(d, field)])

\* A variant of needs_mapping that asks for all eight canonical columns.
NeedsMappingAllCanonical(table) ==
    ~(\A i \in DOMAIN CANONICAL_COLUMNS : HasColumn(table, CANONICAL_COLUMNS[i]))

\* needs_mapping(df)
needs_mapping(table) ==
    ~(\A i \in DOMAIN REQUIRED_CANONICAL : HasColumn(table, REQUIRED_CANONICAL[i]))

\* is_canonical(df)
is_canonical(table) ==
    \A i \in DOMAIN REQUIRED_CANONICAL : HasColumn(table, REQUIRED_CANONICAL[i])

\* df[col] = value for a column the table lacks.
WithColumn(table, col, cell) ==
    [columns |-> Append(table.columns, col),
     rows |-> [i \in DOMAIN table.rows |->
                 [c \in Range(table.columns) \cup {col} |->
                     IF c = col THEN cell ELSE table.rows[i][c]]]]

\* A variant of SelectColumns that returns the table with all its columns.
SelectColumnsKeepAll(table, cols) == table

\* df[cols]
SelectColumns(table, cols) ==
    [columns |-> cols,
     rows |-> [i \in DOMAIN table.rows |-> [c \in Range(cols) |-> table.rows[i][c]]]]

IdColumns == <<STUDENT_ID, EXAM_ID, QUESTION_ID, RUBRIC_ITEM>>
OptionalColumns == <<TOPIC, SECTION_ID, TA_ID>>

ensure_canonical_columns(table) ==
    LET withTopic == IF HasColumn(table, TOPIC) THEN table
                     ELSE WithColumn(table, TOPIC, Str(<<>>))
        rows == withTopic.rows
        missing_required ==
            SelectSeq(REQUIRED_CANONICAL, LAMBDA col : ~HasColumn(withTopic, col))
        blank == SelectSeq(IdColumns,
                           LAMBDA col : \E i \in DOMAIN rows :
                                            StrCell(rows[i][col]).s = <<>>)
        points == [i \in DOMAIN rows |-> ToNumeric(rows[i][POINTS_LOST])]
        cleaned ==
            [i \in DOMAIN rows |->
                [c \in Range(withTopic.columns) \cup Range(OptionalColumns) |->
                    CASE c \in Range(IdColumns) -> StrCell(rows[i][c])
                      [] c = POINTS_LOST -> points[i]
                      [] c \in Range(OptionalColumns) ->
                            IF HasColumn(withTopic, c) THEN StrCell(FillNa(rows[i][c]))
                            ELSE Str(<<>>)
                      [] OTHER -> rows[i][c]]]
        df_copy ==
            [columns |-> withTopic.columns
                         \o SelectSeq(OptionalColumns,
                                      LAMBDA col : ~HasColumn(withTopic, col)),
             rows |-> cleaned]
    IN IF missing_required # <<>>
       THEN Raised(Message("Dataframe missing required columns: {missing_required}",
                           missing_required))
       ELSE IF blank # <<>>
       THEN Raised(Message("Missing required values in '{col}'", <<blank[1]>>))
       ELSE IF \E i \in DOMAIN points : points[i].kind = "nan"
       THEN Raised(Message("points_lost column contains non-numeric values", <<>>))
       ELSE IF \E i \in DOMAIN points : points[i].n < 0
       THEN Raised(Message("points_lost must be non-negative", <<>>))
       ELSE Returned(SelectColumns(df_copy, CANONICAL_COLUMNS))

\* mapping.to_dict().values()
MappingSources(m) == [k \in DOMAIN CANONICAL_COLUMNS |-> m[CANONICAL_COLUMNS[k]]]

apply_mapping(table, m) ==
    LET declared == SelectSeq(MappingSources(m),
                              LAMBDA src : ~Falsy(src) /\ ~HasColumn(table, src.v))
        missing == [k \in DOMAIN declared |-> declared[k].v]
        rows == table.rows
        points == [i \in DOMAIN rows |-> ToNumeric(rows[i][m[POINTS_LOST].v])]
        mapped(col) == ~Falsy(m[col]) /\ HasColumn(table, m[col].v)
        built ==
            [i \in DOMAIN rows |->
                [c \in Range(CANONICAL_COLUMNS) |->
                    CASE c = RUBRIC_ITEM ->
                            Str(CollapseWhitespace(StrCell(rows[i][m[c].v]).s))
                      [] c = POINTS_LOST -> points[i]
                      [] c \in Range(OptionalColumns) ->
                            IF mapped(c) THEN StrCell(rows[i][m[c].v]) ELSE Str(<<>>)
                      [] OTHER -> StrCell(rows[i][m[c].v])]]
        blank == SelectSeq(REQUIRED_CANONICAL,
                           LAMBDA col : \E i \in DOMAIN built :
                                \/ built[i][col].kind = "nan"
                                \/ StrStrip(AsTypeStr(built[i][col])) = <<>>)
    IN IF missing # <<>>
       THEN Raised(Message("Source columns not found: {missing}", missing))
       ELSE IF \E k \in DOMAIN REQUIRED_CANONICAL : ~mapped(REQUIRED_CANONICAL[k])
       THEN Raised(Message("KeyError", <<>>))
       ELSE IF \E i \in DOMAIN points : points[i].kind = "nan"
       THEN Raised(Message("points_lost column contains non-numeric values", <<>>))
       ELSE IF \E i \in DOMAIN points : points[i].n < 0
       THEN Raised(Message("points_lost must be non-negative", <<>>))
       ELSE IF blank # <<>>
       THEN Raised(Message("Missing required values in '{col}'", <<blank[1]>>))
       ELSE ensure_canonical_columns([columns |-> CANONICAL_COLUMNS, rows |-> built])

\* normalize_dataframe(df, mapping, infer_mapping): the tuple
\* (normalized, mapping, suggested), or the error raised.
normalize_dataframe(table, m, infer) ==
    IF ~needs_mapping(table) /\ is_canonical(table)
    THEN LET fast == ensure_canonical_columns(table)
         IN IF fast.status = "raised" THEN fast
            ELSE Returned([normalized |-> fast.value, mapping |-> None,
                           suggested |-> None])
    ELSE IF ~m.some /\ ~infer
    THEN Raised(Message("Mapping required to normalize this dataset", <<>>))
    ELSE LET suggested == IF m.some THEN None ELSE Some(suggest_mapping(table))
             config == IF m.some THEN Returned(m.v) ELSE from_dict(suggested.v)
             applied == apply_mapping(table, config.value)
         IN IF config.status = "raised" THEN config
            ELSE IF applied.status = "raised" THEN applied
            ELSE Returned([normalized |-> applied.value,
                           mapping |-> Some(config.value),
                           suggested |-> suggested])

(***************************************************************************)
(* Specification of the normalization: one call of normalize_dataframe,    *)
(* apply_mapping or ensure_canonical_columns on a raw table.               *)
(***************************************************************************)
NormMaxRows == 2

\* The headers of the raw tables, by name.
RawHeader(name) ==
    CASE name = "notes" -> <<"n", "o", "t", "e", "s">>
      [] name = "sid" -> <<"s", "i", "d">>
      [] name = "exam" -> <<"e", "x", "a", "m">>
      [] name = "question" -> <<"q", "u", "e", "s", "t", "i", "o", "n">>
      [] name = "rubric" -> <<"r", "u", "b", "r", "i", "c">>
      [] name = "loss" -> <<"l", "o", "s", "s">>
      [] name = "student" -> <<"s", "t", "u", "d", "e", "n", "t">>
      [] name = "exam_code" -> <<"e", "x", "a", "m", "_", "c", "o", "d", "e">>
      [] name = "qid" -> <<"q", "i", "d">>
      [] name = "item" -> <<"i", "t", "e", "m">>
      [] name = "penalty" -> <<"p", "e", "n", "a", "l", "t", "y">>
      [] name = "tag" -> <<"t", "a", "g">>

Headers(names) == [k \in DOMAIN names |-> RawHeader(names[k])]

HeaderSets ==
    {CANONICAL_COLUMNS,
     REQUIRED_CANONICAL \o Headers(<<"notes">>),
     Headers(<<"sid", "exam", "question", "rubric", "loss">>),
     Headers(<<"student", "exam_code", "qid", "item", "penalty", "tag">>),
     <<STUDENT_ID, EXAM_ID, QUESTION_ID, RUBRIC_ITEM>>}

\* The clean value of a column.
BaseCell(col) ==
    CASE col \in {POINTS_LOST} \cup Range(Headers(<<"loss", "penalty">>)) -> Num(1)
      [] col \in {TOPIC} \cup Range(Headers(<<"tag">>)) -> Str(<<"t">>)
      [] col \in {SECTION_ID, TA_ID} \cup Range(Headers(<<"notes">>)) -> Str(<<"s">>)
      [] OTHER -> Str(<<"a">>)

\* The values a column takes: clean, padded, blank, missing, unparsable,
\* negative.
CellChoices(col) ==
    {BaseCell(col)} \cup
    CASE col \in {STUDENT_ID} \cup Range(Headers(<<"sid", "student">>)) ->
            {Str(<<" ", "a">>), Str(<<" ">>)}
      [] col \in {EXAM_ID} \cup Range(Headers(<<"exam", "exam_code">>)) ->
            {NaN, Str(<<>>)}
      [] col \in {RUBRIC_ITEM} \cup Range(Headers(<<"rubric", "item">>)) ->
            {Str(<<"a", " ", " ", "b", " ">>), Str(<<"\t">>)}
      [] col \in {POINTS_LOST} \cup Range(Headers(<<"loss", "penalty">>)) ->
            {Str(<<"2">>), Str(<<"-", "1">>), Str(<<"x">>), Num(-1)}
      [] col \in {TOPIC} \cup Range(Headers(<<"tag">>)) -> {Str(<<" ", "t">>), NaN}
      [] OTHER -> {}

BaseRow(cols) == [c \in Range(cols) |-> BaseCell(c)]

\* The rows over the columns: the clean row with at most one value replaced.
RawRows(cols) ==
    {[BaseRow(cols) EXCEPT ![c] = v] : <<c, v>> \in
        UNION {{<<c, v>> : v \in CellChoices(c)} : c \in Range(cols)}}

RawTables(max_rows) ==
    UNION {{[columns |-> cols, rows |-> rows] :
                rows \in SeqsUpTo(RawRows(cols), max_rows)} : cols \in HeaderSets}

\* MappingConfig(...): the five required sources in order, and topic.
Config(required, topic) ==
    [field \in Range(CANONICAL_COLUMNS) |->
        IF \E k \in DOMAIN required : REQUIRED_CANONICAL[k] = field
        THEN Some(required[CHOOSE k \in DOMAIN required : REQUIRED_CANONICAL[k] = field])
        ELSE IF field = TOPIC THEN topic ELSE None]

MappingConfigs ==
    {None,
     Some(Config(Headers(<<"sid", "exam", "question", "rubric", "loss">>), None)),
     Some(Config(Headers(<<"sid", "exam", "question", "rubric", "loss">>),
                 Some(RawHeader("tag")))),
     Some(Config(Headers(<<"student", "exam_code", "qid", "item", "penalty">>),
                 Some(RawHeader("tag"))))}

InitNorm ==
    /\ ExtraIdle
    /\ df \in RawTables(NormMaxRows)
    /\ mapping_cfg \in MappingConfigs
    /\ infer_mapping \in BOOLEAN
    /\ called = ""
    /\ normalized = Idle
    /\ exam_order = None
    /\ PersistIdle
    /\ RecIdle
    /\ ConceptIdle
    /\ ClusterIdle
    /\ ResultsIdle

NormalizeDataframe ==
    /\ called = ""
    /\ called' = "normalize_dataframe"
    /\ normalized' = normalize_dataframe(df, mapping_cfg, infer_mapping)
    /\ UNCHANGED <<extraVars, analyticsVars, conceptVars, clusterVars, mapping_cfg, infer_mapping,
                   resultVars>>

\* A direct call of apply_mapping; infer_mapping is no argument of it.
ApplyMapping ==
    /\ called = ""
    /\ mapping_cfg.some
    /\ infer_mapping
    /\ called' = "apply_mapping"
    /\ normalized' = apply_mapping(df, mapping_cfg.v)
    /\ UNCHANGED <<extraVars, analyticsVars, conceptVars, clusterVars, mapping_cfg, infer_mapping,
                   resultVars>>

\* A direct call of ensure_canonical_columns; it takes the table only.
EnsureCanonicalColumns ==
    /\ called = ""
    /\ ~mapping_cfg.some
    /\ infer_mapping
    /\ called' = "ensure_canonical_columns"
    /\ normalized' = ensure_canonical_columns(df)
    /\ UNCHANGED <<extraVars, analyticsVars, conceptVars, clusterVars, mapping_cfg, infer_mapping,
                   resultVars>>

\* ensure_canonical_columns applied to the table a call returned.
EnsureAgain ==
    /\ normalized.status = "returned"
    /\ renormalized.status = "idle"
    /\ renormalized' = ensure_canonical_columns(
                            IF called = "normalize_dataframe"
                            THEN normalized.value.normalized
                            ELSE normalized.value)
    /\ UNCHANGED <<extraVars, analyticsVars, conceptVars, clusterVars, normVars, with_concepts,
                   invariant_results, loaded, from_dict_result>>

NextNorm ==
    \/ NormalizeDataframe
    \/ ApplyMapping
    \/ EnsureCanonicalColumns
    \/ EnsureAgain

SpecNorm == InitNorm /\ [][NextNorm]_vars

(***************************************************************************)
(* concepts.apply_concept_column                                           *)
(***************************************************************************)
CONCEPT == <<"c", "o", "n", "c", "e", "p", "t">>

\* The default unmapped_label, "Unmapped".
UnmappedText == <<"U", "n", "m", "a", "p", "p", "e", "d">>

\* Series.map(mapping) of one value: the value under this very key, or NaN.
MapCell(m, cell) ==
    IF cell.kind = "str" /\ \E k \in DOMAIN m : m[k][1] = cell.s
    THEN Str(m[CHOOSE k \in DOMAIN m : m[k][1] = cell.s][2])
    ELSE NaN

\* The concept of one row whose topic column exists.
ConceptCell(row, m, unmapped_label) ==
    LET rubric == StrCell(FillNa(row[RUBRIC_ITEM]))
        topic == StrCell(FillNa(row[TOPIC]))
        missing_topic == topic.s = <<>>
        mapped == FillNa(MapCell(m, rubric))
        chosen == IF m # <<>> /\ missing_topic THEN mapped ELSE topic
        cleaned == StrCell(FillNa(chosen))
    IN IF cleaned.s # <<>> THEN cleaned ELSE Str(unmapped_label)

\* apply_concept_column(df, mapping, unmapped_label): df.get("topic", "") is
\* the str "" when there is no topic column, and a str has no fillna.
apply_concept_column(table, m, unmapped_label) ==
    IF ~HasColumn(table, RUBRIC_ITEM)
    THEN Raised(Message("KeyError", <<RUBRIC_ITEM>>))
    ELSE IF ~HasColumn(table, TOPIC)
    THEN Raised(Message("AttributeError: 'str' object has no attribute 'fillna'", <<>>))
    ELSE Returned(
        [columns |-> IF HasColumn(table, CONCEPT) THEN table.columns
                     ELSE Append(table.columns, CONCEPT),
         rows |-> [i \in DOMAIN table.rows |->
                     [c \in Range(table.columns) \cup {CONCEPT} |->
                         CASE c = CONCEPT ->
                                ConceptCell(table.rows[i], m, unmapped_label)
                           [] c = RUBRIC_ITEM ->
                                StrCell(FillNa(table.rows[i][RUBRIC_ITEM]))
                           [] OTHER -> table.rows[i][c]]]])

(***************************************************************************)
(* Specification of apply_concept_column: one call on a table with or      *)
(* without a topic column and a rubric-to-concept mapping.                 *)
(***************************************************************************)
ConceptMaxRows == 2

ConceptHeaderSets ==
    {<<STUDENT_ID, RUBRIC_ITEM, TOPIC>>, <<STUDENT_ID, RUBRIC_ITEM>>}

ConceptCellChoices(col) ==
    CASE col = STUDENT_ID -> {Str(<<"s">>)}
      [] col = RUBRIC_ITEM -> {Str(<<"a">>), Str(<<" ", "a">>), Str(<<"b">>)}
      [] col = TOPIC -> {Str(<<"t">>), Str(<<" ", "t", " ">>), Str(<<" ">>), Str(<<>>), NaN}

\* The rows over the columns, every cell one of the column's choices.
ConceptRows(cols) ==
    {r \in [Range(cols) -> UNION {ConceptCellChoices(c) : c \in Range(cols)}] :
        \A c \in Range(cols) : r[c] \in ConceptCellChoices(c)}

ConceptTables(max_rows) ==
    UNION {{[columns |-> cols, rows |-> rows] :
                rows \in SeqsUpTo(ConceptRows(cols), max_rows)} :
           cols \in ConceptHeaderSets}

RubricToConcept ==
    {<<>>,
     <<<<<<"a">>, <<"c">>>>>>,
     <<<<<<"a">>, <<" ", "c", " ">>>>>>,
     <<<<<<"a">>, <<" ">>>>>>,
     <<<<<<" ", "a">>, <<"c">>>>>>,
     <<<<<<"b">>, <<"d">>>>, <<<<"a">>, <<"c">>>>>>}

InitApplyConcept ==
    /\ ExtraIdle
    /\ df \in ConceptTables(ConceptMaxRows)
    /\ mapping \in RubricToConcept
    /\ with_concepts = Idle
    /\ exam_order = None
    /\ PersistIdle
    /\ RecIdle
    /\ concept_file = NoFile
    /\ save_result = Idle
    /\ ClusterIdle
    /\ NormIdle
    /\ renormalized = Idle
    /\ invariant_results = Idle
    /\ loaded = Idle
    /\ from_dict_result = Idle

ApplyConceptColumn ==
    /\ with_concepts.status = "idle"
    /\ with_concepts' = apply_concept_column(df, mapping, UnmappedText)
    /\ UNCHANGED <<extraVars, analyticsVars, conceptVars, clusterVars, normVars, renormalized,
                   invariant_results, loaded, from_dict_result>>

NextApplyConcept == ApplyConceptColumn

SpecApplyConcept == InitApplyConcept /\ [][NextApplyConcept]_vars


(***************************************************************************)
(* The validator (invariants.py).                                          *)
(***************************************************************************)
SCORE == <<"s", "c", "o", "r", "e">>
MAX_SCORE == <<"m", "a", "x", "_", "s", "c", "o", "r", "e">>

REQUIRED_COLUMNS ==
    <<STUDENT_ID,
      <<"s", "t", "u", "d", "e", "n", "t", "_", "n", "a", "m", "e">>,
      <<"a", "s", "s", "i", "g", "n", "m", "e", "n", "t">>,
      RUBRIC_ITEM,
      <<"c", "a", "t", "e", "g", "o", "r", "y">>,
      SCORE,
      MAX_SCORE,
      <<"c", "o", "m", "m", "e", "n", "t">>>>

\* ", ".join(cols)
RECURSIVE JoinComma(_)
JoinComma(cols) ==
    IF cols = <<>> THEN <<>>
    ELSE IF Len(cols) = 1 THEN cols[1]
    ELSE cols[1] \o <<",", " ">> \o JoinComma(Tail(cols))

\* check_required_columns(df), as the columns whose entry is False, in the
\* order of REQUIRED_COLUMNS.
check_required_columns(table) ==
    SelectSeq(REQUIRED_COLUMNS, LAMBDA col : ~HasColumn(table, col))

\* check_missing_identifiers(df), the columns being there
check_missing_identifiers(table) ==
    Cardinality({i \in DOMAIN table.rows :
                    \/ StrCell(table.rows[i][STUDENT_ID]).s = <<>>
                    \/ StrCell(table.rows[i][RUBRIC_ITEM]).s = <<>>})

\* check_numeric_scores(df), the column being there
check_numeric_scores(table) ==
    Cardinality({i \in DOMAIN table.rows :
                    ToNumeric(table.rows[i][SCORE]).kind = "nan"})

\* check_score_ranges(df), the columns being there: a comparison with NaN
\* is False.
check_score_ranges(table) ==
    Cardinality({i \in DOMAIN table.rows :
        LET numeric_score == ToNumeric(table.rows[i][SCORE])
            numeric_max == ToNumeric(table.rows[i][MAX_SCORE])
            invalid == \/ numeric_score.kind = "num" /\ numeric_score.n < 0
                       \/ numeric_max.kind = "num" /\ numeric_max.n < 0
            over_max == /\ numeric_max.kind = "num"
                        /\ numeric_score.kind = "num"
                        /\ numeric_score.n > numeric_max.n
        IN invalid \/ over_max})

\* One entry of the list run_invariants returns; the detail is text or a
\* count.
CheckResult(name, ok, detail) == [name |-> name, ok |-> ok, detail |-> detail]

\* run_invariants(df): df[col] raises KeyError for a column the table lacks.
run_invariants(table) ==
    LET missing_required == check_required_columns(table)
        absent == SelectSeq(<<STUDENT_ID, RUBRIC_ITEM, SCORE, MAX_SCORE>>,
                            LAMBDA col : ~HasColumn(table, col))
        missing_ids == check_missing_identifiers(table)
        non_numeric == check_numeric_scores(table)
        out_of_range == check_score_ranges(table)
    IN IF absent # <<>>
       THEN Raised(Message("KeyError", <<absent[1]>>))
       ELSE Returned(
           <<CheckResult("required_columns", missing_required = <<>>,
                         IF missing_required # <<>>
                         THEN Str(JoinComma(missing_required))
                         ELSE Str(<<"a", "l", "l", " ", "p", "r", "e", "s", "e", "n", "t">>)),
             CheckResult("missing_identifiers", missing_ids = 0, Num(missing_ids)),
             CheckResult("non_numeric_scores", non_numeric = 0, Num(non_numeric)),
             CheckResult("score_range_violations", out_of_range = 0, Num(out_of_range))>>)

(***************************************************************************)
(* Specification of the validator: one call of run_invariants on a table   *)
(* in the canonical schema, in the schema of REQUIRED_COLUMNS, or lacking  *)
(* columns of either.                                                      *)
(***************************************************************************)
InvMaxRows == 2

InvHeaderSets ==
    {CANONICAL_COLUMNS,
     REQUIRED_CANONICAL,
     REQUIRED_COLUMNS,
     IdColumns \o <<SCORE, MAX_SCORE>>,
     CANONICAL_COLUMNS \o <<SCORE, MAX_SCORE>>,
     <<STUDENT_ID, RUBRIC_ITEM, SCORE>>,
     <<EXAM_ID, POINTS_LOST>>}

\* The clean value of a column.
InvBaseCell(col) ==
    CASE col \in {POINTS_LOST, SCORE} -> Num(1)
      [] col = MAX_SCORE -> Num(2)
      [] OTHER -> Str(<<"a">>)

\* The values a column takes: clean, padded, blank, unparsable, negative,
\* over the maximum.
InvCellChoices(col) ==
    {InvBaseCell(col)} \cup
    CASE col \in Range(IdColumns) -> {Str(<<" ", "a">>), Str(<<" ">>)}
      [] col = POINTS_LOST -> {Num(-1), Str(<<"x">>)}
      [] col = SCORE -> {Num(-1), Num(3), Str(<<"x">>), NaN}
      [] col = MAX_SCORE -> {Num(-1), NaN}
      [] OTHER -> {}

\* The rows over the columns: the clean row with at most one value replaced.
InvRows(cols) ==
    {[[k \in Range(cols) |-> InvBaseCell(k)] EXCEPT ![cv[1]] = cv[2]] : cv \in
        UNION {{<<c, v>> : v \in InvCellChoices(c)} : c \in Range(cols)}}

InvTables(max_rows) ==
    UNION {{[columns |-> cols, rows |-> rows] :
                rows \in SeqsUpTo(InvRows(cols), max_rows)} : cols \in InvHeaderSets}

InitInvariants ==
    /\ ExtraIdle
    /\ df \in InvTables(InvMaxRows)
    /\ invariant_results = Idle
    /\ exam_order = None
    /\ PersistIdle
    /\ RecIdle
    /\ ConceptIdle
    /\ ClusterIdle
    /\ NormIdle
    /\ with_concepts = Idle
    /\ renormalized = Idle
    /\ loaded = Idle
    /\ from_dict_result = Idle

RunInvariants ==
    /\ invariant_results.status = "idle"
    /\ invariant_results' = run_invariants(df)
    /\ UNCHANGED <<extraVars, analyticsVars, conceptVars, clusterVars, normVars, with_concepts,
                   renormalized, loaded, from_dict_result>>

NextInvariants == RunInvariants

SpecInvariants == InitInvariants /\ [][NextInvariants]_vars


(***************************************************************************)
(* Specification of MappingConfig.from_dict: one call on a dict in which   *)
(* each required field and topic is absent, None, empty or a column name.  *)
(***************************************************************************)
EntryKinds == {"absent", "none", "empty", "column"}

\* The dict of one choice of entries; a field's column has the field's name.
FieldDict(kinds) ==
    [key \in {k \in DOMAIN kinds : kinds[k] # "absent"} |->
        CASE kinds[key] = "none" -> None
          [] kinds[key] = "empty" -> Some(<<>>)
          [] kinds[key] = "column" -> Some(key)]

FieldDicts ==
    {FieldDict(kinds) : kinds \in [Range(REQUIRED_CANONICAL) \cup {TOPIC} -> EntryKinds]}

InitFromDict ==
    /\ ExtraIdle
    /\ mapping \in FieldDicts
    /\ from_dict_result = Idle
    /\ concept_file = NoFile
    /\ save_result = Idle
    /\ AnalyticsIdle
    /\ ClusterIdle
    /\ NormIdle
    /\ with_concepts = Idle
    /\ renormalized = Idle
    /\ invariant_results = Idle
    /\ loaded = Idle

FromDict ==
    /\ from_dict_result.status = "idle"
    /\ from_dict_result' = from_dict(mapping)
    /\ UNCHANGED <<extraVars, analyticsVars, conceptVars, clusterVars, normVars, with_concepts,
                   renormalized, invariant_results, loaded>>

NextFromDict == FromDict

SpecFromDict == InitFromDict /\ [][NextFromDict]_vars


(***************************************************************************)
(* metrics.py: group_comparison.                                           *)
(***************************************************************************)
\* The group labels of the model, in the order groupby lists them.
GroupLabels ==
    <<<<"S", "1">>, <<"S", "2">>, <<"T", "1">>,
      <<"U", "n", "a", "s", "s", "i", "g", "n", "e", "d">>, <<"a">>>>

\* A variant of GroupLabel that leaves a blank value as it is.
GroupLabelKeepBlank(row, col, label) == StrCell(FillNa(row[col])).s

\* The label of a row: the group value with NaN filled, stripped, and a
\* blank one replaced by missing_label.
GroupLabel(row, col, label) ==
    LET stripped == StrCell(FillNa(row[col])).s
    IN IF stripped = <<>> THEN label ELSE stripped

\* One row of the result, for the rows of one group.
GroupRow(col, group_value, subset) ==
    LET students == Cardinality({subset[i][STUDENT_ID] : i \in DOMAIN subset})
        total == SumSeq([i \in DOMAIN subset |-> subset[i][POINTS_LOST].n])
    IN [group |-> group_value,
        rows |-> Len(subset),
        students |-> students,
        total_points_lost |-> total,
        avg_points_per_student |-> IF students # 0 THEN Ratio(total, students) ELSE Zero,
        avg_points_per_row |-> Ratio(total, Len(subset))]

\* group_comparison(df, group_col, missing_label): ensure_canonical_columns
\* raises on a table it rejects and returns the eight canonical columns.
group_comparison(table, col, label) ==
    LET ensured == ensure_canonical_columns(table)
        data == ensured.value
        labels == [i \in DOMAIN data.rows |-> GroupLabel(data.rows[i], col, label)]
        keys == SortedFrom(GroupLabels, labels)
        rows == [k \in DOMAIN keys |->
                    GroupRow(col, keys[k],
                             SelectSeq(data.rows,
                                       LAMBDA r : GroupLabel(r, col, label) = keys[k]))]
    IN IF ensured.status = "raised" THEN ensured
       ELSE IF ~HasColumn(data, col) THEN Returned(<<>>)
       ELSE Returned(SortDesc(rows, Column(rows, "avg_points_per_student")))

(***************************************************************************)
(* Specification of group_comparison: one call on a canonical table with   *)
(* or without the optional columns.                                        *)
(***************************************************************************)
GroupMaxRows == 2

GRADER == <<"g", "r", "a", "d", "e", "r">>

GroupHeaderSets ==
    {CANONICAL_COLUMNS,
     <<STUDENT_ID, EXAM_ID, QUESTION_ID, RUBRIC_ITEM, POINTS_LOST, TOPIC, TA_ID>>,
     REQUIRED_CANONICAL \o <<GRADER>>}

GroupCellChoices(col) ==
    CASE col = STUDENT_ID -> {Str(<<"a">>), Str(<<"s">>)}
      [] col = POINTS_LOST -> {Num(1), Num(2)}
      [] col = SECTION_ID ->
            {Str(<<"S", "1">>), Str(<<" ", "S", "1">>), Str(<<"S", "2">>), Str(<<" ">>), NaN}
      [] col \in {TA_ID, GRADER} -> {Str(<<"T", "1">>)}
      [] OTHER -> {Str(<<"a">>)}

\* The rows over the columns: every choice of student, points and section,
\* the second student losing one point.
GroupRows(cols) ==
    {[c \in Range(cols) |->
        CASE c = STUDENT_ID -> sp[1]
          [] c = POINTS_LOST -> sp[2]
          [] c = SECTION_ID -> sec
          [] OTHER -> CHOOSE v \in GroupCellChoices(c) : TRUE] :
        sp \in {q \in GroupCellChoices(STUDENT_ID) \X GroupCellChoices(POINTS_LOST) :
                    q[1] = Str(<<"a">>) \/ q[2] = Num(1)},
        sec \in GroupCellChoices(SECTION_ID)}

GroupTables(max_rows) ==
    UNION {{[columns |-> cols, rows |-> rows] :
                rows \in SeqsUpTo(GroupRows(cols), max_rows)} :
           cols \in GroupHeaderSets}

InitGroup ==
    /\ df \in GroupTables(GroupMaxRows)
    /\ group_col \in {SECTION_ID, TA_ID, GRADER}
    /\ missing_label \in {GroupLabels[4], GroupLabels[1]}
    /\ group_result = Idle
    /\ SuggestIdle
    /\ ExportIdle
    /\ UnionFindIdle
    /\ SessionIdle
    /\ exam_order = None
    /\ PersistIdle
    /\ RecIdle
    /\ ConceptIdle
    /\ ClusterIdle
    /\ NormIdle
    /\ ResultsIdle

GroupComparison ==
    /\ group_result.status = "idle"
    /\ group_result' = group_comparison(df, group_col, missing_label)
    /\ UNCHANGED <<baseVars, group_col, missing_label, suggestVars, exportVars, unionFindVars, sessionVars>>

NextGroup == GroupComparison

SpecGroup == InitGroup /\ [][NextGroup]_vars


(***************************************************************************)
(* Specification of suggest_mapping: one call on a table with the          *)
(* canonical headers, or with up to SuggestMaxColumns headers of a pool in *)
(* any order.                                                              *)
(***************************************************************************)
SuggestMaxColumns == 3

HeaderPool ==
    {STUDENT_ID, POINTS_LOST,
     <<"S", "I", "D">>,
     <<"S", "t", "u", "d", "e", "n", "t", " ", "I", "D">>,
     <<"d", "e", "d", "u", "c", "t", "i", "o", "n">>,
     <<"n", "o", "t", "e", "s">>}

\* Tables without rows: suggest_mapping reads the headers only.
HeaderTables(max_columns) ==
    {[columns |-> cols, rows |-> <<>>] :
        cols \in {CANONICAL_COLUMNS} \cup
                 {c \in SeqsUpTo(HeaderPool, max_columns) :
                     Cardinality(Range(c)) = Len(c)}}

InitSuggest ==
    /\ df \in HeaderTables(SuggestMaxColumns)
    /\ suggestion = Idle
    /\ GroupIdle
    /\ ExportIdle
    /\ UnionFindIdle
    /\ SessionIdle
    /\ exam_order = None
    /\ PersistIdle
    /\ RecIdle
    /\ ConceptIdle
    /\ ClusterIdle
    /\ NormIdle
    /\ ResultsIdle

SuggestMapping ==
    /\ suggestion.status = "idle"
    /\ suggestion' = Returned(suggest_mapping(df))
    /\ UNCHANGED <<baseVars, groupVars, exportVars, unionFindVars, sessionVars>>

NextSuggest == SuggestMapping

SpecSuggest == InitSuggest /\ [][NextSuggest]_vars


(***************************************************************************)
(* Claims about the persistence engine (checked under SpecPersist).        *)
(***************************************************************************)
ExamsPresent == {df[i].exam_id : i \in DOMAIN df}

ExamIndex(e) == CHOOSE i \in DOMAIN ExamIds : ExamIds[i] = e

\* The exams of S in lexicographic order.
LexSorted(S) ==
    CHOOSE s \in [1..Cardinality(S) -> S] :
        /\ Range(s) = S
        /\ \A i, j \in DOMAIN s : i < j => ExamIndex(s[i]) < ExamIndex(s[j])

\* The effective ordering of a supplied list: the list filtered to the exams
\* present, or the sorted observed exams when nothing is left.
EffectiveOf(supplied) ==
    LET filtered == SelectSeq(supplied, LAMBDA e : e \in ExamsPresent)
    IN IF filtered # <<>> THEN filtered ELSE LexSorted(ExamsPresent)

EffectiveOrdering == EffectiveOf(IF exam_order.some THEN exam_order.v ELSE <<>>)

LaterExams == {EffectiveOrdering[i] : i \in 2..Len(EffectiveOrdering)}

StudentsOn(item, exams) ==
    {df[i].student_id :
        i \in {j \in DOMAIN df : df[j].rubric_item = item /\ df[j].exam_id \in exams}}

ClaimCohort(item) == StudentsOn(item, {EffectiveOrdering[1]})

ClaimRepeated(item) == ClaimCohort(item) \cap StudentsOn(item, LaterExams)

\* C1: compute_persistence returns one row per rubric item of the table, whose
\* cohort_size is the number of distinct students with a row for the item on
\* the first exam of the effective ordering and whose repeated is the number of
\* those students with a row for the item on an exam at a later position of the
\* ordering; rows on exams outside the ordering count for neither.
C1_PersistenceCounts ==
    persistence.status = "returned" =>
        LET rows == persistence.value
        IN /\ {rows[i].key : i \in DOMAIN rows} = {df[i].rubric_item : i \in DOMAIN df}
           /\ \A i, j \in DOMAIN rows : rows[i].key = rows[j].key => i = j
           /\ \A i \in DOMAIN rows :
                /\ rows[i].cohort_size = Cardinality(ClaimCohort(rows[i].key))
                /\ rows[i].repeated = Cardinality(ClaimRepeated(rows[i].key))

\* A supplied ordering of two exams, an item with a cohort of 2 of whom 1
\* repeats, the other having the item again only on an exam outside the ordering.
C1_Witness ==
    /\ persistence.status = "returned"
    /\ exam_order.some
    /\ Len(EffectiveOrdering) = 2
    /\ \E i \in DOMAIN persistence.value :
         LET r == persistence.value[i]
         IN /\ r.cohort_size = 2
            /\ r.repeated = 1
            /\ \E s \in ClaimCohort(r.key) \ ClaimRepeated(r.key) :
                 s \in StudentsOn(r.key, Range(ExamIds) \ Range(EffectiveOrdering))

\* C7: with fewer than two exams in the effective ordering, compute_persistence
\* and _concept_persistence return an empty result and do not raise.
C7_FewerThanTwoExamsEmpty ==
    /\ persistence.status # "raised"
    /\ concept_persist.status # "raised"
    /\ (persistence.status = "returned" /\ Len(EffectiveOrdering) < 2)
          => persistence.value = <<>>
    /\ (concept_persist.status = "returned" /\ Len(EffectiveOf(CallerOrder)) < 2)
          => concept_persist.value = <<>>

PersistenceRowOk(r) ==
    /\ 0 <= r.repeated
    /\ r.repeated <= r.cohort_size
    /\ r.persistence_rate[2] > 0
    /\ 0 <= r.persistence_rate[1]
    /\ r.persistence_rate[1] <= r.persistence_rate[2]
    /\ r.cohort_size > 0 =>
          r.persistence_rate[1] * r.cohort_size = r.repeated * r.persistence_rate[2]
    /\ r.cohort_size = 0 => r.persistence_rate = Zero

\* C8: in every row of compute_persistence and of _concept_persistence,
\* 0 <= repeated <= cohort_size, persistence_rate = repeated / cohort_size lies
\* in [0,1], and persistence_rate = 0 when cohort_size = 0.
C8_RateInUnitInterval ==
    /\ \A i \in DOMAIN persistence.value : PersistenceRowOk(persistence.value[i])
    /\ \A i \in DOMAIN concept_persist.value : PersistenceRowOk(concept_persist.value[i])

\* One item with an empty cohort beside one whose cohort partly repeats.
C8_Witness ==
    /\ persistence.status = "returned"
    /\ \E i, j \in DOMAIN persistence.value :
         /\ persistence.value[i].cohort_size = 0
         /\ persistence.value[j].cohort_size = 2
         /\ persistence.value[j].repeated = 1

(***************************************************************************)
(* Claims about the recommendation engine (checked under SpecRec).         *)
(***************************************************************************)
\* The rows the recommendations are computed from, and their exams.
RecScope == RecData(df, include_unmapped)

RecExamsPresent == {RecScope[i].exam_id : i \in DOMAIN RecScope}

RecOrdering ==
    LET supplied == IF exam_order.some THEN exam_order.v ELSE <<>>
        filtered == SelectSeq(supplied, LAMBDA e : e \in RecExamsPresent)
    IN IF filtered # <<>> THEN filtered ELSE LexSorted(RecExamsPresent)

ConceptStudentsOn(c, exams) ==
    {RecScope[i].student_id :
        i \in {j \in DOMAIN RecScope :
                 RecScope[j].concept = c /\ RecScope[j].exam_id \in exams}}

\* The persistence rate of a concept over the ordered exams, 0 when there is none.
ClaimConceptRate(c) ==
    LET cohort == ConceptStudentsOn(c, {RecOrdering[1]})
        later == ConceptStudentsOn(c, {RecOrdering[i] : i \in 2..Len(RecOrdering)})
    IN IF Len(RecOrdering) < 2 \/ cohort = {} THEN Zero
       ELSE Ratio(Cardinality(cohort \cap later), Cardinality(cohort))

SameRatio(a, b) == a[1] * b[2] = b[1] * a[2]

\* C9: compute_recommendations never raises on a table with a concept column,
\* and each record's persistence_rate is the concept's persistence rate over
\* the ordered exams, or 0 when none is available.
C9_FailOpenPersistenceJoin ==
    /\ recs.status # "raised"
    /\ recs.status = "returned" =>
         \A i \in DOMAIN recs.value :
            SameRatio(recs.value[i].persistence_rate,
                      ClaimConceptRate(recs.value[i].concept))

\* The eligible concepts: non-blank, in the rows kept, and in the allow-list.
AllowedSet == {Strip(c) : c \in Range(allowed_concepts.v)} \ {""}

Eligible ==
    {c \in {RecScope[i].concept : i \in DOMAIN RecScope} :
        c # "" /\ (allowed_concepts.some => c \in AllowedSet)}

ClaimStudents(c) == Cardinality(ConceptStudentsOn(c, Range(ExamIds)))

ClaimTotal(c) ==
    SumSeq(Column(SelectSeq(RecScope, LAMBDA r : r.concept = c), "points_lost"))

ClaimImpact(c) ==
    ClaimTotal(c) * (IF ClaimStudents(c) > 1 THEN ClaimStudents(c) ELSE 1)

RecConcepts == {recs.value[i].concept : i \in DOMAIN recs.value}

\* C10: compute_recommendations returns at most top_n records, by
\* non-increasing impact_score, each impact_score being points_lost_total *
\* max(students, 1) of its concept, and no eligible concept left out has a
\* strictly greater impact_score than a concept returned.
C10_TopNByImpact ==
    recs.status = "returned" =>
        LET out == recs.value
        IN /\ Len(out) <= top_n
           /\ \A i, j \in DOMAIN out : i < j => out[i].impact_score >= out[j].impact_score
           /\ \A i, j \in DOMAIN out : out[i].concept = out[j].concept => i = j
           /\ \A i \in DOMAIN out :
                /\ out[i].concept \in Eligible
                /\ out[i].points_lost_total = ClaimTotal(out[i].concept)
                /\ out[i].students = ClaimStudents(out[i].concept)
                /\ out[i].impact_score = ClaimImpact(out[i].concept)
           /\ \A c \in Eligible \ RecConcepts :
                \A i \in DOMAIN out : ClaimImpact(c) <= out[i].impact_score

\* The single record asked for covers two students (impact 3 * 2), and an
\* eligible concept of lower impact is left out.
C10_Witness ==
    /\ recs.status = "returned"
    /\ top_n = 1
    /\ Len(recs.value) = 1
    /\ recs.value[1].students = 2
    /\ recs.value[1].points_lost_total = 3
    /\ recs.value[1].impact_score = 6
    /\ \E c \in Eligible \ RecConcepts : ClaimImpact(c) < 6

\* The sentinel concept may be returned: it was asked for and is not kept out
\* by the allow-list.
SentinelAllowed ==
    include_unmapped /\ (allowed_concepts.some => UnmappedLabel \in AllowedSet)

\* C11: every concept returned by compute_recommendations is non-blank, is
\* (the trimmed form of) an entry of the allow-list when one is given, and is
\* not the unmapped sentinel unless include_unmapped is true; an allow-list
\* that is empty after dropping blank entries gives an empty result and no
\* error; with include_unmapped true and the sentinel allowed, the sentinel
\* is returned unless top_n concepts of at least its impact are.
C11_AllowListAndSentinel ==
    /\ recs.status = "returned" =>
          /\ \A i \in DOMAIN recs.value :
                LET c == recs.value[i].concept
                IN /\ Strip(c) # ""
                   /\ allowed_concepts.some => c \in AllowedSet
                   /\ ~include_unmapped => c # UnmappedLabel
          /\ (SentinelAllowed /\ UnmappedLabel \in Eligible
                              /\ UnmappedLabel \notin RecConcepts) =>
                /\ Len(recs.value) = top_n
                /\ \A i \in DOMAIN recs.value :
                      recs.value[i].impact_score >= ClaimImpact(UnmappedLabel)
    /\ (recs.status # "idle" /\ allowed_concepts.some /\ AllowedSet = {}) =>
          recs.status = "returned" /\ recs.value = <<>>

\* With include_unmapped true and an allow-list naming the sentinel, the
\* sentinel is returned, while a blank concept and a concept outside the
\* allow-list of the same table are not.
C11_Witness ==
    /\ recs.status = "returned"
    /\ include_unmapped
    /\ allowed_concepts.some
    /\ UnmappedLabel \in RecConcepts
    /\ \E i, j \in DOMAIN df : Strip(df[i].concept) = "" /\ df[j].concept = "Y"

\* C12: in every record returned by compute_recommendations, action is
\* "Re-teach" exactly when the record's persistence_rate is at least 0.2 (1/5)
\* and "Add practice for" otherwise; a concept without an available
\* persistence rate gets "Add practice for".
C12_ActionThreshold ==
    recs.status = "returned" =>
        \A i \in DOMAIN recs.value :
            LET rec == recs.value[i]
                atLeastFifth == rec.persistence_rate[1] * 5 >= rec.persistence_rate[2]
            IN /\ rec.action \in {"Re-teach", "Add practice for"}
               /\ rec.action = "Re-teach" <=> atLeastFifth
               /\ (\/ Len(RecOrdering) < 2
                   \/ ConceptStudentsOn(rec.concept, {RecOrdering[1]}) = {}) =>
                     rec.action = "Add practice for"

\* One student of a cohort of five repeats the concept (rate exactly 0.2) and
\* the record says "Re-teach".
C12_Witness ==
    /\ recs.status = "returned"
    /\ \E i \in DOMAIN recs.value :
          /\ recs.value[i].persistence_rate = <<1, 5>>
          /\ recs.value[i].action = "Re-teach"

\* One student of a cohort of six repeats the concept and the record says
\* "Add practice for".
C12_WitnessBelow ==
    /\ recs.status = "returned"
    /\ \E i \in DOMAIN recs.value :
          /\ recs.value[i].persistence_rate = <<1, 6>>
          /\ recs.value[i].action = "Add practice for"

\* The rows of df in the one order that depends on the rows alone.
StandardOrder == SeqOfSet(Range(df))

IsPlaceholder(value) == StrLower(StrStrip(value)) \in PLACEHOLDER_VALUES

HasPlaceholder(m) == \E i \in DOMAIN m : IsPlaceholder(m[i][2])

\* C5: in any sequence of save_concept_mapping calls, a call whose mapping has
\* an entry with a placeholder value raises and leaves the file as it was (not
\* created if it did not exist), and a call that succeeds leaves the file
\* holding exactly the cleaned mapping it returns.
C5_SaveAtomic ==
    [][/\ HasPlaceholder(mapping') => save_result'.status = "raised"
       /\ save_result'.status = "raised" => concept_file' = concept_file
       /\ save_result'.status = "returned" =>
            /\ concept_file'.exists
            /\ concept_file'.text = JsonDumps(save_result'.value)
            /\ JsonLoads(concept_file'.text) = save_result'.value]_vars

\* A save holding a placeholder entry and a valid entry has raised while the
\* file holds the mapping of an earlier save.
C5_Witness ==
    /\ save_result.status = "raised"
    /\ HasPlaceholder(mapping)
    /\ \E i \in DOMAIN mapping :
         ~IsPlaceholder(mapping[i][2]) /\ StrStrip(mapping[i][1]) # <<>>
    /\ concept_file.exists
    /\ concept_file.text # <<>>

(***************************************************************************)
(* Claims about the misconception clustering.                              *)
(***************************************************************************)
\* The students who incurred a rubric item, read off the table.
ClaimStudentsOf(item) ==
    {df[i].student_id : i \in {j \in DOMAIN df : Strip(df[j].rubric_item) = item}}

\* The rubric items that survive the support filter.
Survivors ==
    {item \in Range(ClusterItemIds) :
        Cardinality(ClaimStudentsOf(item)) >= min_support}

\* An edge of the similarity graph: Jaccard similarity or normalized
\* co-occurrence at or above its threshold.
ClaimEdge(a, b) ==
    LET sa == ClaimStudentsOf(a)
        sb == ClaimStudentsOf(b)
        inter == Cardinality(sa \cap sb)
    IN \/ inter * jaccard_threshold[2]
            >= jaccard_threshold[1] * Cardinality(sa \cup sb)
       \/ inter * inter * corr_threshold[2] * corr_threshold[2]
            >= corr_threshold[1] * corr_threshold[1]
               * Cardinality(sa) * Cardinality(sb)

RECURSIVE ReachableFrom(_)
ReachableFrom(S) ==
    LET next == S \cup {b \in Survivors : \E a \in S : ClaimEdge(a, b)}
    IN IF next = S THEN S ELSE ReachableFrom(next)

ClusterList == clusters.value.cluster_list

SameCluster(a, b) ==
    \E k \in DOMAIN ClusterList :
        {a, b} \subseteq Range(ClusterList[k].members)

\* C6: when at least two rubric items survive the support filter, two of them
\* are members of the same cluster exactly when a path of similarity edges
\* joins them, so the clusters are the connected components of the graph.
C6_ClustersAreComponents ==
    (clusters.status = "returned" /\ Cardinality(Survivors) >= 2) =>
        \A a \in Survivors : \A b \in Survivors :
            SameCluster(a, b) <=> b \in ReachableFrom({a})

\* Three surviving items in one cluster, two of them joined only through the
\* third, beside a run with two clusters.
C6_Witness ==
    /\ clusters.status = "returned"
    /\ Cardinality(Survivors) = 3
    /\ min_support = 2
    /\ \E a \in Survivors : \E b \in Survivors :
          /\ a # b
          /\ ~ClaimEdge(a, b)
          /\ SameCluster(a, b)

C6_WitnessSplit ==
    /\ clusters.status = "returned"
    /\ Cardinality(Survivors) = 3
    /\ Len(ClusterList) = 2

\* C23: clustering is reproducible: candidate pairs are iterated in a fixed
\* order over the filtered item list that does not depend on the order of
\* the input rows, so for two tables holding the same rows in a different
\* order (here the table and its rows in the opposite order)
\* _misconception_clusters returns the same clusters with the same labels in
\* the same order and the same (rubric_item_a, rubric_item_b) orientation of
\* each similarity row.
C23_ClusteringReproducible ==
    clusters.status = "returned" =>
        clusters.value = misconception_clusters(Reverse(df), jaccard_threshold,
                                                corr_threshold, min_support)

SimRows == clusters.value.sim_df

\* C28: the clusters partition the surviving items: the member lists are
\* non-empty, pairwise disjoint and cover exactly the non-blank rubric items
\* incurred by at least min_support distinct students; the similarity table
\* names surviving items only and has exactly one row for each unordered pair
\* of them; and with fewer than two surviving items the result is no clusters
\* and an empty table.
C28_ClustersPartitionSurvivors ==
    clusters.status = "returned" =>
        IF Cardinality(Survivors) < 2
        THEN ClusterList = <<>> /\ SimRows = <<>>
        ELSE /\ \A k \in DOMAIN ClusterList : ClusterList[k].members # <<>>
             /\ \A k, l \in DOMAIN ClusterList :
                    k # l => Range(ClusterList[k].members)
                                \cap Range(ClusterList[l].members) = {}
             /\ UNION {Range(ClusterList[k].members) : k \in DOMAIN ClusterList}
                    = Survivors
             /\ \A k \in DOMAIN SimRows :
                    /\ SimRows[k].rubric_item_a \in Survivors
                    /\ SimRows[k].rubric_item_b \in Survivors
                    /\ SimRows[k].rubric_item_a # SimRows[k].rubric_item_b
             /\ \A a, b \in Survivors :
                    a # b =>
                        Cardinality({k \in DOMAIN SimRows :
                            {SimRows[k].rubric_item_a, SimRows[k].rubric_item_b}
                                = {a, b}}) = 1

\* Two items survive in separate clusters while a third item of the table,
\* below the support threshold, is left out.
C28_Witness ==
    /\ clusters.status = "returned"
    /\ Cardinality(Survivors) = 2
    /\ Len(ClusterList) = 2
    /\ Len(SimRows) = 1
    /\ \E i \in DOMAIN df :
          /\ Strip(df[i].rubric_item) # ""
          /\ Strip(df[i].rubric_item) \notin Survivors

\* One item survives although the table holds two items: nothing is returned.
C28_WitnessTooFew ==
    /\ clusters.status = "returned"
    /\ Cardinality(Survivors) = 1
    /\ Cardinality({Strip(df[i].rubric_item) : i \in DOMAIN df} \ {""}) = 2
    /\ ClusterList = <<>>
    /\ SimRows = <<>>


(***************************************************************************)
(* Claims about the normalization.                                         *)
(***************************************************************************)
\* The table a successful call returned.
ResultTable ==
    IF called = "normalize_dataframe" THEN normalized.value.normalized
    ELSE normalized.value

\* The call cleaned the table under its own headers (ensure_canonical_columns,
\* directly or as the fast path of normalize_dataframe).
FastPath ==
    \/ called = "ensure_canonical_columns"
    \/ /\ called = "normalize_dataframe"
       /\ \A k \in DOMAIN REQUIRED_CANONICAL : HasColumn(df, REQUIRED_CANONICAL[k])

\* The mapping the call applied, if any: the one supplied, or the inferred one
\* when it names every required field.
AppliedMapping ==
    IF called = "apply_mapping" \/ (called = "normalize_dataframe" /\ mapping_cfg.some)
    THEN mapping_cfg
    ELSE IF /\ called = "normalize_dataframe"
            /\ infer_mapping
            /\ \A k \in DOMAIN REQUIRED_CANONICAL :
                   ~Falsy(suggest_mapping(df)[REQUIRED_CANONICAL[k]])
         THEN Some(suggest_mapping(df))
         ELSE None

\* The source column declared for each canonical field, or None.
DeclaredSources ==
    LET applied == AppliedMapping
    IN [field \in Range(CANONICAL_COLUMNS) |->
          IF FastPath
          THEN IF field \in Range(REQUIRED_CANONICAL) \/ HasColumn(df, field)
               THEN Some(field) ELSE None
          ELSE IF applied.some THEN applied.v[field] ELSE None]

SourcePresent(src, field) ==
    src[field].some /\ HasColumn(df, src[field].v)

AbsentDeclared(src) ==
    \E field \in Range(CANONICAL_COLUMNS) :
        /\ src[field].some
        /\ src[field].v # <<>>
        /\ ~HasColumn(df, src[field].v)

IsBlank(cell) ==
    cell.kind = "str" /\ \A k \in DOMAIN cell.s : cell.s[k] \in Whitespace

BlankIdentifier(src) ==
    \E field \in Range(IdColumns) :
        /\ SourcePresent(src, field)
        /\ \E i \in DOMAIN df.rows : IsBlank(df.rows[i][src[field].v])

IsNumeral(s) ==
    \/ IsDigits(s)
    \/ s # <<>> /\ s[1] = "-" /\ IsDigits(Tail(s))

NonNumeric(cell) ==
    \/ cell.kind = "nan"
    \/ cell.kind = "str" /\ ~IsNumeral(cell.s)

Negative(cell) ==
    \/ cell.kind = "num" /\ cell.n < 0
    \/ cell.kind = "str" /\ IsNumeral(cell.s) /\ cell.s[1] = "-"
       /\ DigitsValue(Tail(cell.s)) > 0

BadPoints(src) ==
    /\ SourcePresent(src, POINTS_LOST)
    /\ \E i \in DOMAIN df.rows :
          LET cell == df.rows[i][src[POINTS_LOST].v]
          IN NonNumeric(cell) \/ Negative(cell)

\* The text of an error message names points_lost.
MentionsPointsLost(msg) ==
    \/ msg.text \in {"points_lost column contains non-numeric values",
                     "points_lost must be non-negative"}
    \/ \E k \in DOMAIN msg.args : Contains(msg.args[k], POINTS_LOST)

FailsClosed(src) ==
    (AbsentDeclared(src) \/ BlankIdentifier(src) \/ BadPoints(src))
        => normalized.status = "raised"

\* C2 as stated: the call raises whenever a declared source column is absent,
\* an identifier is blank after trimming or a points_lost value is non-numeric
\* or negative, and in every points_lost case the message mentions points_lost.
C2_FailClosedAlwaysNamesPoints ==
    LET src == DeclaredSources
    IN called # "" =>
           /\ FailsClosed(src)
           /\ BadPoints(src) =>
                 normalized.status = "raised" /\ MentionsPointsLost(normalized.error)

\* C2: the call raises whenever a declared source column is absent, an
\* identifier is blank after trimming or a points_lost value is non-numeric or
\* negative; in the points_lost cases the message mentions points_lost unless
\* a declared column is absent or, under ensure_canonical_columns, an
\* identifier is blank, which are checked first and reported instead.
C2_FailClosed ==
    LET src == DeclaredSources
    IN called # "" =>
           /\ FailsClosed(src)
           /\ (/\ BadPoints(src)
               /\ ~AbsentDeclared(src)
               /\ FastPath => ~BlankIdentifier(src)) =>
                 normalized.status = "raised" /\ MentionsPointsLost(normalized.error)

\* normalize_dataframe applied a supplied mapping to a table with a blank
\* identifier and a bad points_lost value, and the error names points_lost.
C2_Witness ==
    LET src == DeclaredSources
    IN /\ called = "normalize_dataframe"
       /\ ~FastPath
       /\ mapping_cfg.some
       /\ BadPoints(src)
       /\ BlankIdentifier(src)
       /\ ~AbsentDeclared(src)
       /\ normalized.status = "raised"
       /\ MentionsPointsLost(normalized.error)

Trimmed(s) == s = <<>> \/ (s[1] \notin Whitespace /\ s[Len(s)] \notin Whitespace)

CanonicalRow(src, row) ==
    /\ \A field \in Range(IdColumns) :
          /\ row[field].kind = "str"
          /\ row[field].s # <<>>
          /\ Trimmed(row[field].s)
    /\ row[POINTS_LOST].kind = "num"
    /\ row[POINTS_LOST].n >= 0
    /\ \A field \in Range(OptionalColumns) :
          /\ row[field].kind = "str"
          /\ ~SourcePresent(src, field) => row[field].s = <<>>

\* C3: every row of a returned table has non-blank trimmed identifier strings,
\* a number >= 0 as points_lost, and strings as topic, section_id and ta_id
\* that are empty when the field was unmapped or its column absent.
C3_CanonicalRowInvariant ==
    LET src == DeclaredSources
    IN normalized.status = "returned" =>
           \A i \in DOMAIN ResultTable.rows : CanonicalRow(src, ResultTable.rows[i])

\* normalize_dataframe returned a table through an inferred or supplied mapping
\* from a padded identifier, with a mapped topic and unmapped section_id.
C3_Witness ==
    LET src == DeclaredSources
    IN /\ called = "normalize_dataframe"
       /\ normalized.status = "returned"
       /\ ~FastPath
       /\ SourcePresent(src, TOPIC)
       /\ ~SourcePresent(src, SECTION_ID)
       /\ \E i \in DOMAIN df.rows :
             /\ df.rows[i][src[STUDENT_ID].v] = Str(<<" ", "a">>)
             /\ ResultTable.rows[i][STUDENT_ID] = Str(<<"a">>)
             /\ ResultTable.rows[i][TOPIC].s # <<>>

\* Row i of the result is the cleaned row i of the input.
RowCameFrom(src, out, in) ==
    /\ \A field \in {STUDENT_ID, EXAM_ID, QUESTION_ID} :
          out[field].s = StrStrip(AsTypeStr(in[src[field].v]))
    /\ CollapseWhitespace(out[RUBRIC_ITEM].s)
          = CollapseWhitespace(StrStrip(AsTypeStr(in[src[RUBRIC_ITEM].v])))
    /\ LET cell == in[src[POINTS_LOST].v]
       IN out[POINTS_LOST].n
             = IF cell.kind = "num" THEN cell.n ELSE DigitsValue(cell.s)

\* C4: a returned table has as many rows as the input, in the same order, and
\* exactly the eight canonical columns in canonical order.
C4_RowsAndColumnsPreserved ==
    LET src == DeclaredSources
    IN normalized.status = "returned" =>
           /\ ResultTable.columns
                 = <<STUDENT_ID, EXAM_ID, QUESTION_ID, RUBRIC_ITEM, POINTS_LOST,
                     TOPIC, SECTION_ID, TA_ID>>
           /\ Len(ResultTable.rows) = Len(df.rows)
           /\ \A i \in DOMAIN df.rows :
                 /\ DOMAIN ResultTable.rows[i] = Range(ResultTable.columns)
                 /\ RowCameFrom(src, ResultTable.rows[i], df.rows[i])

\* The fast path returned two rows that differ, from a table with a column
\* that is not canonical and without the optional columns.
C4_Witness ==
    /\ called = "normalize_dataframe"
    /\ normalized.status = "returned"
    /\ FastPath
    /\ HasColumn(df, RawHeader("notes"))
    /\ ~HasColumn(df, TA_ID)
    /\ Len(df.rows) = 2
    /\ ResultTable.rows[1][POINTS_LOST].n = 1
    /\ ResultTable.rows[2][POINTS_LOST].n = 2

\* No leading or trailing whitespace and no run of two whitespace characters.
WhitespaceCollapsed(s) ==
    /\ Trimmed(s)
    /\ \A k \in 1..(Len(s) - 1) : ~(s[k] \in Whitespace /\ s[k + 1] \in Whitespace)

\* C14: in every table returned by the normalization, through apply_mapping
\* or through the ensure_canonical_columns fast path, rubric_item is
\* whitespace-collapsed.
C14_RubricWhitespaceCollapsed ==
    normalized.status = "returned" =>
        \A i \in DOMAIN ResultTable.rows :
            WhitespaceCollapsed(ResultTable.rows[i][RUBRIC_ITEM].s)


\* C15: whenever ensure_canonical_columns has returned a table, applying it
\* again to that table succeeds and returns the same columns, rows and values.
C15_EnsureIdempotent ==
    renormalized.status # "idle" =>
        /\ renormalized.status = "returned"
        /\ renormalized.value.columns = ResultTable.columns
        /\ renormalized.value.rows = ResultTable.rows

\* A direct call trimmed an identifier and parsed a points_lost text, and the
\* second application returned the trimmed and parsed values again.
C15_Witness ==
    /\ called = "ensure_canonical_columns"
    /\ renormalized.status = "returned"
    /\ \E i, j \in DOMAIN df.rows :
          /\ df.rows[i][STUDENT_ID] = Str(<<" ", "a">>)
          /\ renormalized.value.rows[i][STUDENT_ID] = Str(<<"a">>)
          /\ df.rows[j][POINTS_LOST] = Str(<<"2">>)
          /\ renormalized.value.rows[j][POINTS_LOST] = Num(2)


\* Every required canonical column name is a header of the table as it is.
RequiredVerbatim ==
    \A k \in DOMAIN REQUIRED_CANONICAL : HasColumn(df, REQUIRED_CANONICAL[k])

\* C21: normalize_dataframe routes on needs_mapping: when every required
\* canonical column name already exists verbatim it takes the fast path and
\* returns mapping_used = None and suggested = None, a supplied mapping not
\* being applied; otherwise it returns the normalized table together with
\* the mapping it applied, and when no mapping is supplied and infer_mapping
\* is false it fails with the error 'Mapping required' instead of guessing.
C21_RoutesOnNeedsMapping ==
    called = "normalize_dataframe" =>
        /\ needs_mapping(df) = ~RequiredVerbatim
        /\ RequiredVerbatim =>
              /\ normalized.status = "raised" =>
                    normalized = ensure_canonical_columns(df)
              /\ normalized.status = "returned" =>
                    /\ normalized.value.mapping = None
                    /\ normalized.value.suggested = None
                    /\ Returned(normalized.value.normalized)
                          = ensure_canonical_columns(df)
        /\ (~RequiredVerbatim /\ ~mapping_cfg.some /\ ~infer_mapping) =>
              /\ normalized.status = "raised"
              /\ normalized.error.text = "Mapping required to normalize this dataset"
        /\ (~RequiredVerbatim /\ mapping_cfg.some /\ normalized.status = "returned") =>
              /\ normalized.value.mapping = mapping_cfg
              /\ normalized.value.suggested = None
              /\ Returned(normalized.value.normalized)
                    = apply_mapping(df, mapping_cfg.v)
        /\ (~RequiredVerbatim /\ ~mapping_cfg.some /\ infer_mapping
                /\ normalized.status = "returned") =>
              /\ normalized.value.suggested = Some(suggest_mapping(df))
              /\ normalized.value.mapping = normalized.value.suggested
              /\ Returned(normalized.value.normalized)
                    = apply_mapping(df, suggest_mapping(df))

\* A table with the canonical headers was normalized with a mapping supplied
\* that names other columns: the call returned without a mapping.
C21_Witness ==
    /\ called = "normalize_dataframe"
    /\ RequiredVerbatim
    /\ mapping_cfg.some
    /\ mapping_cfg.v[STUDENT_ID] # Some(STUDENT_ID)
    /\ normalized.status = "returned"
    /\ normalized.value.mapping = None
    /\ normalized.value.normalized.rows # <<>>

\* A table under other headers was normalized with no mapping and
\* infer_mapping false: the call raised.
C21_WitnessMappingRequired ==
    /\ called = "normalize_dataframe"
    /\ ~RequiredVerbatim
    /\ ~mapping_cfg.some
    /\ ~infer_mapping
    /\ normalized.status = "raised"

\* A table under other headers was normalized with the inferred mapping.
C21_WitnessInferred ==
    /\ called = "normalize_dataframe"
    /\ ~RequiredVerbatim
    /\ ~mapping_cfg.some
    /\ normalized.status = "returned"
    /\ normalized.value.mapping.some
    /\ normalized.value.normalized.rows # <<>>

(***************************************************************************)
(* Claims about apply_concept_column (checked under SpecApplyConcept).     *)
(***************************************************************************)
TrimmedText(cell) == IF cell.kind = "str" THEN StrStrip(cell.s) ELSE <<>>

\* The concept the rule gives a row: the trimmed topic if non-blank, else the
\* mapping's value for the (trimmed) rubric_item if present and non-blank
\* after trimming, else the unmapped label.
ClaimConcept(row) ==
    LET topic == IF HasColumn(df, TOPIC) THEN TrimmedText(row[TOPIC]) ELSE <<>>
        rubric == TrimmedText(row[RUBRIC_ITEM])
        hits == {k \in DOMAIN mapping : mapping[k][1] = rubric}
        value == IF hits = {} THEN <<>>
                 ELSE StrStrip(mapping[CHOOSE k \in hits : TRUE][2])
    IN IF topic # <<>> THEN topic
       ELSE IF value # <<>> THEN value
       ELSE UnmappedText

ConceptsAsRuled ==
    /\ with_concepts.status = "returned"
    /\ Len(with_concepts.value.rows) = Len(df.rows)
    /\ \A i \in DOMAIN df.rows :
          LET out == with_concepts.value.rows[i]
          IN /\ out[STUDENT_ID] = df.rows[i][STUDENT_ID]
             /\ out[CONCEPT].kind = "str"
             /\ StrStrip(out[CONCEPT].s) # <<>>
             /\ out[CONCEPT].s = ClaimConcept(df.rows[i])

\* C13: for every table, with or without a topic column, and every mapping,
\* apply_concept_column returns a table with the same rows in which each row
\* has one non-blank concept: the trimmed topic if non-blank, else the
\* mapping's value for rubric_item if present and non-blank after trimming,
\* else unmapped_label.
C13_ConceptColumnTotal ==
    with_concepts.status # "idle" => ConceptsAsRuled

(***************************************************************************)
(* Claims about the validator (checked under SpecInvariants).              *)
(***************************************************************************)
\* C16: run_invariants is purely diagnostic: for every input table,
\* including tables that lack canonical columns, it returns its list of
\* results without raising an exception, and it leaves the input table
\* unchanged.
C16_NeverRaises ==
    /\ [](invariant_results.status # "raised")
    /\ [][df' = df]_vars

\* A table in the canonical schema whose rows satisfy the required
\* constraints.
ValidCanonical ==
    /\ \A k \in DOMAIN CANONICAL_COLUMNS : HasColumn(df, CANONICAL_COLUMNS[k])
    /\ \A i \in DOMAIN df.rows :
          /\ \A k \in DOMAIN IdColumns : StrCell(df.rows[i][IdColumns[k]]).s # <<>>
          /\ ToNumeric(df.rows[i][POINTS_LOST]).kind = "num"
          /\ ToNumeric(df.rows[i][POINTS_LOST]).n >= 0

HasNegativePoints ==
    /\ HasColumn(df, POINTS_LOST)
    /\ \E i \in DOMAIN df.rows :
          /\ ToNumeric(df.rows[i][POINTS_LOST]).kind = "num"
          /\ ToNumeric(df.rows[i][POINTS_LOST]).n < 0

\* C17: run_invariants always returns exactly four check results, in the
\* fixed order and with the names required_columns, missing_identifiers,
\* non_numeric_points_lost, negative_points_lost; required_columns is
\* computed against the canonical column set, each count-type result has
\* ok = (count == 0), a valid canonical table passes all four, and a table
\* with a negative points_lost value has a result named
\* negative_points_lost with ok = false.
C17_FourNamedChecks ==
    invariant_results.status # "idle" =>
        /\ invariant_results.status = "returned"
        /\ LET results == invariant_results.value
           IN /\ [k \in DOMAIN results |-> results[k].name]
                    = <<"required_columns", "missing_identifiers",
                        "non_numeric_points_lost", "negative_points_lost">>
              /\ results[1].ok
                    = (\A k \in DOMAIN CANONICAL_COLUMNS :
                           HasColumn(df, CANONICAL_COLUMNS[k]))
              /\ \A k \in 2..4 : results[k].ok = (results[k].detail = Num(0))
              /\ ValidCanonical => \A k \in 1..4 : results[k].ok
              /\ HasNegativePoints => ~results[4].ok

\* C18: the missing_identifiers result of run_invariants has detail equal
\* to the number of rows in which at least one of student_id, exam_id,
\* question_id, rubric_item is blank after trimming, each offending row
\* counted once, and ok = false exactly when that number is positive.
C18_MissingIdentifiersCount ==
    (/\ invariant_results.status = "returned"
     /\ \A k \in DOMAIN IdColumns : HasColumn(df, IdColumns[k])) =>
        LET blank_rows ==
                Cardinality({i \in DOMAIN df.rows :
                                \E k \in DOMAIN IdColumns :
                                    StrStrip(AsTypeStr(df.rows[i][IdColumns[k]])) = <<>>})
            result == invariant_results.value[2]
        IN /\ result.name = "missing_identifiers"
           /\ result.detail = Num(blank_rows)
           /\ result.ok = (blank_rows = 0)

(***************************************************************************)
(* Claims about load_concept_mapping (checked under SpecLoad).             *)
(***************************************************************************)
\* The entries of the persisted object, a repeated key read once.
PersistedObject == JsonLoads(concept_file.text)

\* An entry the load keeps: a key that is not blank and a value that is
\* neither blank nor a placeholder.
KeptEntry(entry) == StrStrip(entry[1]) # <<>> /\ ~IsPlaceholder(entry[2])

\* The concept-mapping invariant for one value.
ValidConcept(value) ==
    /\ value # <<>>
    /\ Trimmed(value)
    /\ StrLower(value) \notin PLACEHOLDER_VALUES

\* C19: load_concept_mapping never fails because of bad entries: for every
\* persisted flat object it returns exactly the entries whose trimmed key is
\* not blank and whose trimmed value is neither blank nor a placeholder token
\* (case-insensitively), trimmed, dropping the others, so that every value of
\* a loaded mapping satisfies the concept-mapping invariant and saving it
\* succeeds; a missing file loads as the empty mapping.
C19_LoadDropsBadEntries ==
    /\ (loaded.status # "idle" /\ save_result.status = "idle") =>
          /\ ~concept_file.exists => loaded = Returned(<<>>)
          /\ (concept_file.exists /\ IsJsonObject(concept_file.text)) =>
                /\ loaded.status = "returned"
                /\ DictKeys(loaded.value)
                      = {StrStrip(PersistedObject[i][1]) :
                            i \in {j \in DOMAIN PersistedObject :
                                      KeptEntry(PersistedObject[j])}}
                /\ \A k \in DOMAIN loaded.value :
                      /\ \E i \in DOMAIN PersistedObject :
                            /\ KeptEntry(PersistedObject[i])
                            /\ loaded.value[k][1] = StrStrip(PersistedObject[i][1])
                            /\ loaded.value[k][2] = StrStrip(PersistedObject[i][2])
                      /\ \A j \in DOMAIN loaded.value :
                            loaded.value[j][1] = loaded.value[k][1] => j = k
    /\ loaded.status = "returned" =>
          \A k \in DOMAIN loaded.value : ValidConcept(loaded.value[k][2])
    /\ save_result.status # "idle" => save_result = Returned(loaded.value)

\* A file holding a kept entry and a placeholder entry has been loaded: the
\* load returned the kept entry alone.
C19_Witness ==
    /\ loaded.status = "returned"
    /\ save_result.status = "idle"
    /\ Len(PersistedObject) = 2
    /\ \E i \in DOMAIN PersistedObject : ~KeptEntry(PersistedObject[i])
    /\ \E i \in DOMAIN PersistedObject :
          IsPlaceholder(PersistedObject[i][2]) /\ PersistedObject[i][2] # <<" ">>
    /\ Len(loaded.value) = 1

\* No file has been loaded: the load returned the empty mapping.
C19_WitnessMissingFile ==
    /\ ~concept_file.exists
    /\ loaded = Returned(<<>>)

(***************************************************************************)
(* Claims about MappingConfig.from_dict (checked under SpecFromDict).      *)
(***************************************************************************)
\* The required fields that are absent, null or empty in the dict.
MissingRequired ==
    {field \in Range(REQUIRED_CANONICAL) :
        \/ field \notin DOMAIN mapping
        \/ ~mapping[field].some
        \/ mapping[field].v = <<>>}

\* C20: MappingConfig.from_dict raises an error that lists every required
\* field (student_id, exam_id, question_id, rubric_item, points_lost) that is
\* absent, null or empty in the dict, not only the first one; it succeeds,
\* leaving the optional fields that the dict does not give null, exactly when
\* all five required fields are present and non-empty.
C20_ListsEveryMissingField ==
    from_dict_result.status # "idle" =>
        /\ from_dict_result.status = "returned" <=> MissingRequired = {}
        /\ from_dict_result.status = "raised" =>
              Range(from_dict_result.error.args) = MissingRequired
        /\ from_dict_result.status = "returned" =>
              /\ \A field \in Range(REQUIRED_CANONICAL) :
                    from_dict_result.value[field] = mapping[field]
              /\ \A field \in Range(OptionalColumns) :
                    field \notin DOMAIN mapping => from_dict_result.value[field] = None

(***************************************************************************)
(* Claims about group_comparison (checked under SpecGroup).                *)
(***************************************************************************)
\* The group a row of the input belongs to: its trimmed group value, or
\* missing_label when the value is missing or blank.
ClaimGroupOf(row) ==
    IF row[group_col].kind = "nan" \/ StrStrip(row[group_col].s) = <<>>
    THEN missing_label
    ELSE StrStrip(row[group_col].s)

\* The input rows of a group.
ClaimRowsOf(label) == SelectSeq(df.rows, LAMBDA r : ClaimGroupOf(r) = label)

C25_MissingColumnEmpty ==
    (group_result.status = "returned" /\ ~HasColumn(df, group_col)) =>
        group_result.value = <<>>

(***************************************************************************)
(* Claims about suggest_mapping (checked under SpecSuggest).               *)
(***************************************************************************)
\* The positions of the headers that, lower-cased, contain a keyword of the
\* field.
MatchingColumns(field) ==
    {i \in DOMAIN df.columns :
        \E keyword \in Range(Keywords(field)) :
            Contains(StrLower(df.columns[i]), keyword)}

\* C26: suggest_mapping, for each canonical field independently, returns the
\* first column in source-table order whose lower-cased header contains any
\* of that field's keywords as a substring (the order of the keywords being
\* irrelevant), or none when no header matches; on a table whose headers are
\* the canonical names in canonical order it maps student_id to student_id
\* and points_lost to points_lost.
C26_FirstMatchingColumn ==
    suggestion.status = "returned" =>
        /\ \A field \in Range(CANONICAL_COLUMNS) :
              LET hits == MatchingColumns(field)
              IN IF hits = {} THEN suggestion.value[field] = None
                 ELSE suggestion.value[field]
                        = Some(df.columns[CHOOSE i \in hits : \A j \in hits : i <= j])
        /\ df.columns = CANONICAL_COLUMNS =>
              /\ suggestion.value[STUDENT_ID] = Some(STUDENT_ID)
              /\ suggestion.value[POINTS_LOST] = Some(POINTS_LOST)

\* A table whose first header matches a later keyword of student_id and
\* whose second header matches the first keyword: the first header is
\* returned.
C26_Witness ==
    /\ suggestion.status = "returned"
    /\ Len(df.columns) >= 2
    /\ df.columns[1] = <<"S", "I", "D">>
    /\ df.columns[2] = <<"S", "t", "u", "d", "e", "n", "t", " ", "I", "D">>
    /\ suggestion.value[STUDENT_ID] = Some(df.columns[1])

\* The canonical headers in canonical order.
C26_WitnessCanonical ==
    /\ suggestion.status = "returned"
    /\ df.columns = CANONICAL_COLUMNS
    /\ suggestion.value[STUDENT_ID] = Some(STUDENT_ID)
    /\ suggestion.value[TA_ID] = Some(TA_ID)
(***************************************************************************)
(* security.py: export file names.  A name is a sequence of characters; a  *)
(* path is the sequence of characters of its string.                       *)
(***************************************************************************)

\* SAFE_FILENAME_RE = [^A-Za-z0-9._-]+ : the characters the class excludes.
SafeChars == Range(Uppers) \cup Range(Lowers) \cup Range(Digits) \cup {".", "_", "-"}

\* str.replace("\\", "/")
ReplaceBackslash(s) == [i \in DOMAIN s |-> IF s[i] = "\\" THEN "/" ELSE s[i]]

\* str.split("/"): the pieces between separators, empty pieces included.
RECURSIVE SplitSlash(_)
SplitSlash(s) ==
    IF \A i \in DOMAIN s : s[i] # "/" THEN <<s>>
    ELSE LET k == CHOOSE i \in DOMAIN s :
                      s[i] = "/" /\ \A j \in 1..(i - 1) : s[j] # "/"
         IN  <<SubSeq(s, 1, k - 1)>> \o SplitSlash(SubSeq(s, k + 1, Len(s)))

\* "_".join(parts)
RECURSIVE JoinUnderscore(_)
JoinUnderscore(parts) ==
    IF parts = <<>> THEN <<>>
    ELSE IF Len(parts) = 1 THEN parts[1]
    ELSE parts[1] \o <<"_">> \o JoinUnderscore(Tail(parts))


\* SAFE_FILENAME_RE.sub("_", s): each maximal run of excluded characters
\* becomes one underscore.
RECURSIVE SubUnsafe(_)
SubUnsafe(s) ==
    IF s = <<>> THEN <<>>
    ELSE IF s[1] \in SafeChars THEN <<s[1]>> \o SubUnsafe(Tail(s))
    ELSE IF Len(s) > 1 /\ s[2] \notin SafeChars THEN SubUnsafe(Tail(s))
    ELSE <<"_">> \o SubUnsafe(Tail(s))

HasDotDot(s) == \E i \in 1..(Len(s) - 1) : s[i] = "." /\ s[i + 1] = "."

\* str.replace("..", "."): one left-to-right pass over non-overlapping pairs.
RECURSIVE ReplaceDotDot(_)
ReplaceDotDot(s) ==
    IF Len(s) < 2 THEN s
    ELSE IF s[1] = "." /\ s[2] = "." THEN <<".">> \o ReplaceDotDot(SubSeq(s, 3, Len(s)))
    ELSE <<s[1]>> \o ReplaceDotDot(Tail(s))

\* while ".." in cleaned: cleaned = cleaned.replace("..", ".")
RECURSIVE CollapseDots(_)
CollapseDots(s) == IF HasDotDot(s) THEN CollapseDots(ReplaceDotDot(s)) ELSE s

\* str.lstrip(".")
RECURSIVE LStripDots(_)
LStripDots(s) == IF s # <<>> /\ s[1] = "." THEN LStripDots(Tail(s)) ELSE s

EXPORT == <<"e", "x", "p", "o", "r", "t">>

sanitize_filename(name) ==
    LET raw == StrStrip(name)
        normalized_name == ReplaceBackslash(raw)
        pieces == SplitSlash(normalized_name)
        parts == SelectSeq(pieces, LAMBDA p : p \notin {<<>>, <<".">>})
    IN  IF \E i \in DOMAIN parts : parts[i] = <<".", ".">>
        THEN Raised(Message("Path traversal not allowed", <<>>))
        ELSE LET cleaned_join == JoinUnderscore(parts)
                 cleaned == LStripDots(CollapseDots(SubUnsafe(cleaned_join)))
             IN  Returned(IF cleaned = <<>> THEN EXPORT ELSE cleaned)

\* pathlib: base_dir / name, and the parent of a path.
JoinPath(dir, name) == dir \o <<"/">> \o name

Parent(path) ==
    LET k == CHOOSE i \in DOMAIN path :
                 path[i] = "/" /\ \A j \in (i + 1)..Len(path) : path[j] # "/"
    IN  SubSeq(path, 1, k - 1)

\* str.startswith
StartsWith(s, prefix) ==
    Len(prefix) <= Len(s) /\ SubSeq(s, 1, Len(prefix)) = prefix

\* Path.resolve(): a path that is a symbolic link resolves to its target,
\* any other path of the model (absolute, without dots) to itself.
Resolve(path, link) == IF link = None THEN path ELSE link.v

\* build_export_path(base_dir, filename) in a file system where
\* base_dir/<sanitized name> is either no link or a link to `link`.
build_export_path(base_dir, name, link) ==
    LET safe == sanitize_filename(name)
    IN  IF safe.status = "raised" THEN safe
        ELSE LET path == JoinPath(base_dir, safe.value)
                 resolved_base == base_dir
                 resolved_path == Resolve(path, link)
             IN  IF ~StartsWith(resolved_path, resolved_base)
                 THEN Raised(Message("Export path escapes base directory", <<>>))
                 ELSE Returned(resolved_path)

(***************************************************************************)
(* Specification of the export helpers: every name of up to MaxNameLen     *)
(* characters over NameChars, in a file system whose export directory      *)
(* BaseDir holds no link at the sanitized name, or a link into itself, into *)
(* a sibling directory or elsewhere.                                       *)
(***************************************************************************)
MaxNameLen == 4

NameChars == {"a", ".", "/", "\\", " "}

FileNames(max_len) == UNION {[1..n -> NameChars] : n \in 0..max_len}

BaseDir == <<"/", "x">>

LinkTargets ==
    {None,
     Some(<<"/", "x", "/", "b">>),
     Some(<<"/", "x", "2", "/", "b">>),
     Some(<<"/", "e", "/", "b">>)}

InitExport ==
    /\ AnalyticsIdle
    /\ ConceptIdle
    /\ ClusterIdle
    /\ NormIdle
    /\ ResultsIdle
    /\ GroupIdle
    /\ SuggestIdle
    /\ UnionFindIdle
    /\ SessionIdle
    /\ filename \in FileNames(MaxNameLen)
    /\ symlink \in LinkTargets
    /\ sanitized = Idle
    /\ export_path = Idle

SanitizeFilename ==
    /\ sanitized.status = "idle"
    /\ sanitized' = sanitize_filename(filename)
    /\ UNCHANGED <<baseVars, groupVars, suggestVars, unionFindVars, sessionVars, filename, symlink, export_path>>

BuildExportPath ==
    /\ export_path.status = "idle"
    /\ export_path' = build_export_path(BaseDir, filename, symlink)
    /\ UNCHANGED <<baseVars, groupVars, suggestVars, unionFindVars, sessionVars, filename, symlink, sanitized>>

NextExport == SanitizeFilename \/ BuildExportPath

SpecExport == InitExport /\ [][NextExport]_vars

(***************************************************************************)
(* Claims about the export helpers.                                        *)
(***************************************************************************)

\* Some path component of the name, backslashes read as slashes, is "..".
HasParentComponent(name) ==
    LET pieces == SplitSlash(ReplaceBackslash(StrStrip(name)))
    IN  \E i \in DOMAIN pieces : pieces[i] = <<".", ".">>

\* A name that cannot leave its directory.
SafeName(s) ==
    /\ s # <<>>
    /\ \A i \in DOMAIN s : s[i] \in SafeChars
    /\ ~HasDotDot(s)
    /\ s[1] # "."

\* sanitize_filename raises exactly for names with a ".." component and
\* otherwise returns a safe name.
SanitizedSafe ==
    sanitized.status # "idle" =>
        IF HasParentComponent(filename)
        THEN sanitized.status = "raised"
        ELSE sanitized.status = "returned" /\ SafeName(sanitized.value)

\* Whatever build_export_path returns lies directly in the base directory.
ExportInBase ==
    export_path.status = "returned" => Parent(export_path.value) = BaseDir

\* C27: sanitize_filename raises exactly when a path component of the name
\* (backslashes read as slashes) is "..", and otherwise returns a non-empty
\* name over [A-Za-z0-9._-] without "..", separator or leading "."; and every
\* path build_export_path returns has the base directory as its parent.
C27_NoPathTraversal == SanitizedSafe /\ ExportInBase
(***************************************************************************)
(* Specification of the union-find inside _misconception_clusters: from    *)
(* parent = {item: item} over the surviving items, any sequence of find    *)
(* and union calls.                                                        *)
(***************************************************************************)
SurvivingItems == <<"A", "B", "C", "D">>

InitUnionFind ==
    /\ AnalyticsIdle
    /\ ConceptIdle
    /\ ClusterIdle
    /\ NormIdle
    /\ ResultsIdle
    /\ GroupIdle
    /\ SuggestIdle
    /\ ExportIdle
    /\ SessionIdle
    /\ parents = [item \in Range(SurvivingItems) |-> item]
    /\ linked = {}
    /\ last_op = NoOp

FindItem(x) ==
    LET f == Find(parents, x)
    IN  /\ parents' = f.parent
        /\ last_op' = [op |-> "find", x |-> x, root |-> f.root,
                       compressed |-> f.parent # parents]
        /\ UNCHANGED <<baseVars, groupVars, suggestVars, exportVars, sessionVars, linked>>

UnionItems(x, y) ==
    /\ parents' = Union(parents, x, y)
    /\ linked' = linked \cup {{x, y}}
    /\ last_op' = [NoOp EXCEPT !.op = "union"]
    /\ UNCHANGED <<baseVars, groupVars, suggestVars, exportVars, sessionVars>>

NextUnionFind ==
    \/ \E x \in Range(SurvivingItems) : FindItem(x)
    \/ \E x, y \in Range(SurvivingItems) : UnionItems(x, y)

SpecUnionFind == InitUnionFind /\ [][NextUnionFind]_vars

(***************************************************************************)
(* Claims about the union-find.                                            *)
(***************************************************************************)
\* The item reached from x after n parent pointers.
RECURSIVE Follow(_, _, _)
Follow(p, x, n) == IF n = 0 THEN x ELSE Follow(p, p[x], n - 1)

\* The item reached after as many pointers as there are items: the root of
\* x when the pointers from x end in a self-parented item.
RootOf(p, x) == Follow(p, x, Len(SurvivingItems))

IsForest(p) ==
    \A x \in Range(SurvivingItems) : p[RootOf(p, x)] = RootOf(p, x)

\* The items joined to those of S by a chain of union calls.
RECURSIVE LinkedTo(_)
LinkedTo(S) ==
    LET next == S \cup {b \in Range(SurvivingItems) :
                            \E a \in S : {a, b} \in linked}
    IN IF next = S THEN S ELSE LinkedTo(next)

\* C29: the parent pointers stay a forest under any sequence of union and
\* find calls: from every item they reach a self-parented root, two items
\* have the same root exactly when a chain of union calls links them, and a
\* find returns the root of its argument and changes the root of no item.
C29_UnionFindForest ==
    /\ [](/\ IsForest(parents)
          /\ \A x, y \in Range(SurvivingItems) :
                RootOf(parents, x) = RootOf(parents, y) <=> y \in LinkedTo({x}))
    /\ [][last_op'.op = "find" =>
            /\ last_op'.root = RootOf(parents, last_op'.x)
            /\ \A z \in Range(SurvivingItems) :
                  RootOf(parents', z) = RootOf(parents, z)]_vars

\* A find has just shortened a path, in a forest where three items share a
\* root and the fourth stands alone.
C29_Witness ==
    /\ last_op.op = "find"
    /\ last_op.compressed
    /\ Cardinality(LinkedTo({last_op.x})) = 3
    /\ \E z \in Range(SurvivingItems) : LinkedTo({z}) = {z}
(***************************************************************************)
(* app.main: the ingestion part of one run of the script (load the source, *)
(* map, normalize, validate), over the session keys it reads and writes.   *)
(***************************************************************************)
\* _init_state: the defaults of the keys the ingestion uses.
SessionDefaults ==
    [raw_df |-> None, normalized_df |-> None, mapping_cfg |-> None,
     validation_results |-> None, selected_rubric |-> None, source_label |-> None]

\* The keys main clears when the source label changes.
CacheKeys == {"mapping_cfg", "normalized_df", "validation_results", "selected_rubric"}

SYNTHETIC_LABEL == "Synthetic dataset (synthetic_class.csv)"
DEMO_LABEL == "Demo dataset (sample_truth.csv)"

\* The files of the data directory: tables in the canonical schema.
SampleTruth ==
    [columns |-> CANONICAL_COLUMNS, rows |-> <<BaseRow(CANONICAL_COLUMNS)>>]

SyntheticClass ==
    [columns |-> REQUIRED_CANONICAL,
     rows |-> <<BaseRow(REQUIRED_CANONICAL), BaseRow(REQUIRED_CANONICAL)>>]

\* The files a user uploads: two header sets that need a mapping, a file of
\* the first header set whose points are not numbers, and a file that reuses
\* the first name with the second header set.
SidHeaders == Headers(<<"sid", "exam", "question", "rubric", "loss">>)
StudentHeaders == Headers(<<"student", "exam_code", "qid", "item", "penalty", "tag">>)

Uploads ==
    {None,
     Some([name |-> "a.csv",
           table |-> [columns |-> SidHeaders, rows |-> <<BaseRow(SidHeaders)>>]]),
     Some([name |-> "b.csv",
           table |-> [columns |-> StudentHeaders, rows |-> <<BaseRow(StudentHeaders)>>]]),
     Some([name |-> "bad.csv",
           table |-> [columns |-> SidHeaders,
                      rows |-> <<[BaseRow(SidHeaders) EXCEPT
                                    ![RawHeader("loss")] = Str(<<"x">>)]>>]]),
     Some([name |-> "a.csv",
           table |-> [columns |-> StudentHeaders, rows |-> <<BaseRow(StudentHeaders)>>]])}

\* _load_source: (raw_df, source_label), or None for (None, None).
load_source(demo_mode, synthetic_mode, upload) ==
    IF synthetic_mode THEN Some([table |-> SyntheticClass, label |-> SYNTHETIC_LABEL])
    ELSE IF demo_mode THEN Some([table |-> SampleTruth, label |-> DEMO_LABEL])
    ELSE IF upload # None THEN Some([table |-> upload.v.table, label |-> upload.v.name])
    ELSE None

\* What _mapping_wizard can return for a table: None while the form is not
\* submitted, else a MappingConfig whose sources are columns of the table.
WizardConfigs ==
    {Config(SidHeaders, None),
     Config(SubSeq(StudentHeaders, 1, 5), Some(RawHeader("tag"))),
     Config(Headers(<<"sid", "exam", "question", "rubric", "sid">>), None)}

MappingWizard(table) ==
    {None} \cup
    {Some(cfg) : cfg \in {c \in WizardConfigs :
        \A field \in DOMAIN c : c[field].some => HasColumn(table, c[field].v)}}

\* A variant of StoreSource that keeps the cached values of the old source.
StoreSourceKeepCache(state, source) ==
    IF source = None THEN state
    ELSE [state EXCEPT !.raw_df = Some(source.v.table),
                       !.source_label = Some(source.v.label)]

\* main, after _load_source: a new source label clears the cached values,
\* and the table and its label are stored.
StoreSource(state, source) ==
    IF source = None THEN state
    ELSE LET cleared ==
                 IF Some(source.v.label) # state.source_label
                 THEN [state EXCEPT !.mapping_cfg = None, !.normalized_df = None,
                                    !.validation_results = None,
                                    !.selected_rubric = None]
                 ELSE state
         IN  [cleared EXCEPT !.raw_df = Some(source.v.table),
                             !.source_label = Some(source.v.label)]

\* The end of a run: the session, the label each cached value was made
\* under, the stage the run reached and the labels of the raw table and of
\* the mapping that normalization was called with.
RunEnd(state, labels, stage, used) ==
    [session |-> state, made_under |-> labels, stage |-> stage, used |-> used]

\* main from "Step 3 -- Validate" on: run_invariants raises out of the run,
\* or its results are stored and the analytics are shown, where a click can
\* select a rubric item.
Validate(state, labels, used, rubric) ==
    LET results == run_invariants(state.normalized_df.v)
        validated == [state EXCEPT !.validation_results = Some(results.value)]
        validatedLabels == [labels EXCEPT !.validation_results = state.source_label]
    IN  IF results.status = "raised"
        THEN RunEnd(state, labels, "validation_raised", used)
        ELSE IF rubric = None
        THEN RunEnd(validated, validatedLabels, "explored", used)
        ELSE RunEnd([validated EXCEPT !.selected_rubric = rubric],
                    [validatedLabels EXCEPT !.selected_rubric = state.source_label],
                    "explored", used)

\* main: the try block around normalize_dataframe.
Normalize(state, labels, rubric) ==
    LET result == normalize_dataframe(state.raw_df.v, state.mapping_cfg,
                                      state.mapping_cfg = None)
        used == Some([raw_label |-> state.source_label,
                      mapping_label |-> labels.mapping_cfg])
    IN  IF result.status = "raised"
        THEN RunEnd(state, labels, "normalization_failed", used)
        ELSE Validate([state EXCEPT !.normalized_df = Some(result.value.normalized)],
                      [labels EXCEPT !.normalized_df = state.source_label],
                      used, rubric)

\* main, from _load_source to the end of the run.
main(state, labels, source, wizard, rubric) ==
    LET stored == StoreSource(state, source)
        kept == [k \in CacheKeys |-> IF stored[k] = None THEN None ELSE labels[k]]
    IN  IF stored.raw_df = None
        THEN RunEnd(stored, kept, "empty", None)
        ELSE IF needs_mapping(stored.raw_df.v) /\ stored.mapping_cfg = None
        THEN IF wizard = None
             THEN RunEnd(stored, kept, "mapping_needed", None)
             ELSE Normalize([stored EXCEPT !.mapping_cfg = wizard],
                            [kept EXCEPT !.mapping_cfg = stored.source_label],
                            rubric)
        ELSE Normalize(stored, kept, rubric)

(***************************************************************************)
(* Specification of the session: any sequence of runs of main, each with   *)
(* its own toggles, upload, wizard answer and click.                       *)
(***************************************************************************)
NoRun ==
    [source |-> None, label_before |-> None, cached_before |-> FALSE,
     cache_at_load |-> [k \in CacheKeys |-> None], stage |-> "", used |-> None,
     validation_before |-> None]

InitSession ==
    /\ AnalyticsIdle
    /\ ConceptIdle
    /\ ClusterIdle
    /\ NormIdle
    /\ ResultsIdle
    /\ GroupIdle
    /\ SuggestIdle
    /\ ExportIdle
    /\ UnionFindIdle
    /\ session_state = SessionDefaults
    /\ made_under = [k \in CacheKeys |-> None]
    /\ run = NoRun

Main ==
    \E demo_mode \in BOOLEAN, synthetic_mode \in BOOLEAN, upload \in Uploads,
       rubric \in {None, Some(<<"a">>)} :
        LET source == load_source(demo_mode, synthetic_mode, upload)
            stored == StoreSource(session_state, source)
        IN  \E wizard \in (IF stored.raw_df = None THEN {None}
                           ELSE MappingWizard(stored.raw_df.v)) :
                LET end == main(session_state, made_under, source, wizard, rubric)
                IN  /\ session_state' = end.session
                    /\ made_under' = end.made_under
                    /\ run' = [source |-> IF source = None THEN None
                                          ELSE Some(source.v.label),
                               label_before |-> session_state.source_label,
                               cached_before |->
                                    \E k \in CacheKeys : session_state[k] # None,
                               cache_at_load |-> [k \in CacheKeys |-> stored[k]],
                               stage |-> end.stage,
                               used |-> end.used,
                               validation_before |-> stored.validation_results]
                    /\ UNCHANGED <<baseVars, groupVars, suggestVars, exportVars,
                                   unionFindVars>>

NextSession == Main

SpecSession == InitSession /\ [][NextSession]_vars

(***************************************************************************)
(* Claims about the session.                                               *)
(***************************************************************************)
\* C30: across any sequence of runs of main, a cached MappingConfig or
\* normalized table is never used with a raw table loaded under another
\* source label: every cached value was made under the session's source
\* label, normalization is called with a mapping made under the label of its
\* raw table, a run that loads a source under a new label has the four cached
\* keys cleared before it normalizes, and a run whose normalization fails or
\* that has no mapping ends without validating.
C30_CacheFollowsSourceLabel ==
    /\ \A k \in CacheKeys :
          session_state[k] # None => made_under[k] = session_state.source_label
    /\ run.used # None =>
          run.used.v.mapping_label \in {None, run.used.v.raw_label}
    /\ (run.source # None /\ run.source # run.label_before) =>
          \A k \in CacheKeys : run.cache_at_load[k] = None
    /\ run.stage \in {"mapping_needed", "normalization_failed"} =>
          session_state.validation_results = run.validation_before

\* A run loaded a source under a new label while the session held cached
\* values, and went on to normalize under a mapping made in that run.
C30_Witness ==
    /\ run.source # None
    /\ run.label_before # None
    /\ run.source # run.label_before
    /\ run.cached_before
    /\ run.used # None
    /\ run.used.v.mapping_label = run.source
    /\ session_state.normalized_df # None

\* A run under the label of the run before it, with values cached in the
\* session, failed to normalize.
C30_WitnessStopped ==
    /\ run.stage = "normalization_failed"
    /\ run.source = run.label_before
    /\ run.cached_before

====
